---------------------------- MODULE Spec2Model ----------------------------
(***************************************************************************)
(* lastgen: proof-date resolution, era classification, certificate         *)
(* hashing/issuance and certificate verification.                          *)
(*                                                                         *)
(* Date strings are ISO-8601 UTC strings, kept as their calendar fields.   *)
(* Epoch-millisecond values (Date.getTime()) exceed the checker's integer  *)
(* range, so a millisecond count n is kept exactly as the pair             *)
(* (n div MS_PER_DAY, n mod MS_PER_DAY).                                   *)
(***************************************************************************)
EXTENDS Integers, Sequences, FiniteSets, TLC

VARIABLES
    now,          \* the wall clock read by new Date()
    user,         \* Data Source response of fetchUser
    firstCommit,  \* Data Source response of fetchFirstCommit (NULL: none)
    issued,       \* certificates returned by createCertificate, in order
    resolved,     \* activation record of the latest resolveProofDate call
    presented,    \* certificate handed to verifyCertificateData (NULL: none)
    commitDetail, \* Data Source response of fetchCommit seen by the verifier
    calls,        \* Data Source calls made by the latest verification, in order
    report,       \* outcome of the latest verification
    hashArg,      \* argument of generateCertificateNumber
    number,       \* value returned by generateCertificateNumber (NULL: not called)
    searchable,   \* the user's commits GitHub's commit search knows
    found,        \* outcome of the latest fetchFirstCommit call (NULL: none)
    cache,        \* web front end: the entries of the cache Map
    served        \* web front end: outcome of the latest lookupUser call

vars == <<now, user, firstCommit, issued, resolved, presented, commitDetail, calls,
          report, hashArg, number, searchable, found, cache, served>>

\* state of the issuing and verifying CLI
cliVars == <<now, user, firstCommit, issued, resolved, presented, commitDetail, calls,
             report>>

numberVars == <<hashArg, number>>

searchVars == <<searchable, found>>

webVars == <<cache, served>>

NULL == [null |-> TRUE]

\* a property that is absent from a parsed JSON object
UNDEFINED == [undefined |-> TRUE]

-----------------------------------------------------------------------------
(* Numbers: millisecond counts, NaN and Infinity.                          *)

MS_PER_DAY == 24 * 60 * 60 * 1000

Num(d, m) == [kind |-> "num", day |-> d, ms |-> m]
NaN == [kind |-> "NaN", day |-> 0, ms |-> 0]
Infinity == [kind |-> "Infinity", day |-> 0, ms |-> 0]

\* a < b on JavaScript numbers: false as soon as one side is NaN
Lt(a, b) ==
    CASE a.kind = "NaN" \/ b.kind = "NaN" -> FALSE
      [] a.kind = "Infinity" -> FALSE
      [] b.kind = "Infinity" -> TRUE
      [] OTHER -> a.day < b.day \/ (a.day = b.day /\ a.ms < b.ms)

Gt(a, b) == Lt(b, a)

\* a <= b on JavaScript numbers
Le(a, b) ==
    CASE a.kind = "NaN" \/ b.kind = "NaN" -> FALSE
      [] b.kind = "Infinity" -> TRUE
      [] a.kind = "Infinity" -> FALSE
      [] OTHER -> a.day < b.day \/ (a.day = b.day /\ a.ms <= b.ms)

\* a - b on finite numbers or NaN
Minus(a, b) ==
    IF a.kind # "num" \/ b.kind # "num" THEN NaN
    ELSE IF a.ms >= b.ms THEN Num(a.day - b.day, a.ms - b.ms)
         ELSE Num(a.day - b.day - 1, a.ms - b.ms + MS_PER_DAY)

\* Math.abs
MathAbs(a) ==
    IF a.kind # "num" THEN a
    ELSE IF a.day >= 0 THEN a
         ELSE IF a.ms = 0 THEN Num(-a.day, 0)
              ELSE Num(-a.day - 1, MS_PER_DAY - a.ms)

-----------------------------------------------------------------------------
(* Date strings and the Date object.                                       *)

\* "yyyy-mm-ddThh:mi:ssZ" (frac = FALSE) or "yyyy-mm-ddThh:mi:ss.mmmZ"
DateString(y, mo, d, h, mi, s, ms, frac) ==
    [y |-> y, mo |-> mo, d |-> d, h |-> h, mi |-> mi, s |-> s, ms |-> ms,
     frac |-> frac]

\* midnight UTC as the GitHub API writes it: "yyyy-mm-ddT00:00:00Z"
Midnight(y, mo, d) == DateString(y, mo, d, 0, 0, 0, 0, FALSE)

\* a string that is not a date at all
NotADate == DateString(0, 0, 0, 0, 0, 0, 0, FALSE)

IsLeap(y) == (y % 4 = 0 /\ y % 100 # 0) \/ y % 400 = 0

DaysInMonth(y, mo) ==
    CASE mo \in {4, 6, 9, 11} -> 30
      [] mo = 2 -> IF IsLeap(y) THEN 29 ELSE 28
      [] OTHER -> 31

IsDate(str) ==
    /\ str.y \in 1970..9999
    /\ str.mo \in 1..12
    /\ str.d \in 1..DaysInMonth(str.y, str.mo)
    /\ str.h \in 0..23 /\ str.mi \in 0..59 /\ str.s \in 0..59
    /\ str.ms \in 0..999

\* days since 1970-01-01 of a civil date
DaysFromCivil(y, mo, d) ==
    LET yy  == IF mo <= 2 THEN y - 1 ELSE y
        era == yy \div 400
        yoe == yy - era * 400
        mp  == IF mo > 2 THEN mo - 3 ELSE mo + 9
        doy == (153 * mp + 2) \div 5 + d - 1
        doe == yoe * 365 + yoe \div 4 - yoe \div 100 + doy
    IN  era * 146097 + doe - 719468

\* new Date(str).getTime()
GetTime(str) ==
    IF str = [chars |-> <<>>] \/ ~IsDate(str) THEN NaN
    ELSE Num(DaysFromCivil(str.y, str.mo, str.d),
             ((str.h * 60 + str.mi) * 60 + str.s) * 1000 + str.ms)

\* new Date(t).toISOString(), t a finite time
ToISOString(t) ==
    LET z   == t.day + 719468
        era == z \div 146097
        doe == z - era * 146097
        yoe == (doe - doe \div 1460 + doe \div 36524 - doe \div 146096) \div 365
        doy == doe - (365 * yoe + yoe \div 4 - yoe \div 100)
        mp  == (5 * doy + 2) \div 153
        d   == doy - (153 * mp + 2) \div 5 + 1
        mo  == IF mp < 10 THEN mp + 3 ELSE mp - 9
        y   == yoe + era * 400 + (IF mo <= 2 THEN 1 ELSE 0)
        sec == t.ms \div 1000
    IN  DateString(y, mo, d, sec \div 3600, (sec \div 60) % 60, sec % 60,
                   t.ms % 1000, TRUE)


-----------------------------------------------------------------------------
(* Text strings: a string is the sequence of its characters.               *)

Str(cs) == [chars |-> cs]
EmptyStr == Str(<<>>)

\* JavaScript truthiness of a value that is a string, null or undefined
Truthy(v) == v # NULL /\ v # EmptyStr

\* a ?? b
Coalesce(a, b) == IF a = NULL THEN b ELSE a

LowerCase == <<"a", "b", "c", "d", "e", "f", "g", "h", "i", "j", "k", "l", "m",
               "n", "o", "p", "q", "r", "s", "t", "u", "v", "w", "x", "y", "z">>
UpperCase == <<"A", "B", "C", "D", "E", "F", "G", "H", "I", "J", "K", "L", "M",
               "N", "O", "P", "Q", "R", "S", "T", "U", "V", "W", "X", "Y", "Z">>
OtherChars == <<"0", "1", "2", "3", "4", "5", "6", "7", "8", "9",
                "-", "_", "+", "@", ".", "/", ":">>
Charset == LowerCase \o UpperCase \o OtherChars

CharCode(c) == CHOOSE i \in DOMAIN Charset : Charset[i] = c

ToLowerChar(c) ==
    IF \E i \in DOMAIN UpperCase : UpperCase[i] = c
    THEN LowerCase[CHOOSE i \in DOMAIN UpperCase : UpperCase[i] = c]
    ELSE c

ToUpperChar(c) ==
    IF \E i \in DOMAIN LowerCase : LowerCase[i] = c
    THEN UpperCase[CHOOSE i \in DOMAIN LowerCase : LowerCase[i] = c]
    ELSE c

\* String.prototype.toLowerCase / toUpperCase
ToLowerCase(str) == Str([i \in DOMAIN str.chars |-> ToLowerChar(str.chars[i])])
ToUpperCase(str) == Str([i \in DOMAIN str.chars |-> ToUpperChar(str.chars[i])])

\* String.prototype.slice(from, to), 0-based, to exclusive
Slice(str, from, to) ==
    Str(SubSeq(str.chars, from + 1, IF to < Len(str.chars) THEN to ELSE Len(str.chars)))

Concat(a, b) == Str(a.chars \o b.chars)

-----------------------------------------------------------------------------
(* Program constants (core/types.ts).                                      *)

CUTOFF_DATE == Midnight(2025, 2, 21)
CERTIFICATE_VERSION == Str(<<"1", ".", "0">>)
CERTIFICATE_SALT == Str(<<"l", "a", "s", "t", "g", "e", "n", "_", "v", "1">>)
\* 30 * 24 * 60 * 60 * 1000 ms, as a (days, ms) pair
THIRTY_DAYS_MS == Num(30, 0)
CERTIFICATE_TYPE == "LASTGEN_CERTIFICATE"
NO_COMMIT_MESSAGE == "(no public commits found - using account creation date)"
SHA256_PREFIX == Str(<<"s", "h", "a", "2", "5", "6", ":">>)

-----------------------------------------------------------------------------
(* Hashing: JSON payload and the injected hash function.                   *)

HexDigits == <<"0", "1", "2", "3", "4", "5", "6", "7",
               "8", "9", "a", "b", "c", "d", "e", "f">>

HASH_HEX_LENGTH == 64

RECURSIVE Hex(_, _)
\* n written with exactly w hexadecimal digits
Hex(n, w) == IF w = 0 THEN <<>> ELSE Hex(n \div 16, w - 1) \o <<HexDigits[(n % 16) + 1]>>

RECURSIVE HexOfChars(_)
HexOfChars(cs) ==
    IF cs = <<>> THEN <<>> ELSE Hex(CharCode(Head(cs)), 2) \o HexOfChars(Tail(cs))

HexOfStr(str) == Hex(Len(str.chars), 2) \o HexOfChars(str.chars)

HexOfDate(str) ==
    Hex(str.y, 4) \o Hex(str.mo, 1) \o Hex(str.d, 2) \o Hex(str.h, 2)
    \o Hex(str.mi, 2) \o Hex(str.s, 2) \o Hex(str.ms, 3)
    \o Hex(IF str.frac THEN 1 ELSE 0, 1)

HexOfEra(era) == Hex(CASE era = "LAST_GEN" -> 1 [] era = "AI_NATIVE" -> 2 [] OTHER -> 3, 1)

\* JSON.stringify({username, githubId, proofDate, era, salt}): the text is
\* determined by, and determines, the five values in this order
JSONStringify(username, githubId, proofDate, era, salt) ==
    [username |-> username, githubId |-> githubId, proofDate |-> proofDate,
     era |-> era, salt |-> salt]

\* SHA-256, hex encoded: 64 hex digits, different for different payloads
\* (collision-free on the payloads of the model, all shorter than 64 digits)
sha256Hex(payload) ==
    LET body == Hex(payload.githubId.id, 4) \o HexOfDate(payload.proofDate)
                \o HexOfEra(payload.era) \o HexOfStr(payload.username)
                \o HexOfStr(payload.salt)
    IN  Str(body \o [i \in 1..(HASH_HEX_LENGTH - Len(body)) |-> "0"])

\* the injected HashFn: nodeHash (node:crypto) and webHash (crypto.subtle) are
\* both SHA-256, hex encoded
hashFn(data) == sha256Hex(data)

-----------------------------------------------------------------------------
(* core/proof.ts                                                           *)

\* mutant: the cutoff instant itself still counts as LAST_GEN
classifyEra_UpToCutoff(proofDate) ==
    IF Le(GetTime(proofDate), GetTime(CUTOFF_DATE)) THEN "LAST_GEN" ELSE "AI_NATIVE"

classifyEra(proofDate) ==
    LET cutoff == GetTime(CUTOFF_DATE)
        date   == GetTime(proofDate)
    IN  IF Lt(date, cutoff) THEN "LAST_GEN" ELSE "AI_NATIVE"

\* mutant: the drift is taken as an absolute value
getEffectiveCommitDate_AbsDrift(commit) ==
    IF ~Truthy(commit.committerDate) THEN commit.date
    ELSE IF Gt(MathAbs(Minus(GetTime(commit.committerDate), GetTime(commit.date))),
               THIRTY_DAYS_MS)
         THEN commit.committerDate
         ELSE commit.date

getEffectiveCommitDate(commit) ==
    IF ~Truthy(commit.committerDate) THEN commit.date
    ELSE LET authorTime    == GetTime(commit.date)
             committerTime == GetTime(commit.committerDate)
         IN  IF Gt(Minus(committerTime, authorTime), THIRTY_DAYS_MS)
             THEN commit.committerDate
             ELSE commit.date

\* mutant: the repository creation date is never consulted
resolveProofDate_NoRepoCheck(u, commit, clock) ==
    IF commit = NULL THEN ToISOString(clock)
    ELSE LET effectiveDate == getEffectiveCommitDate(commit)
         IN  IF Lt(GetTime(effectiveDate), GetTime(u.createdAt)) THEN effectiveDate
             ELSE u.createdAt

\* mutant: without a commit the account creation date is used
resolveProofDate_NoCommitAccountDate(u, commit, clock) ==
    IF commit = NULL THEN u.createdAt
    ELSE LET effectiveDate == getEffectiveCommitDate(commit)
             commitTime    == GetTime(effectiveDate)
             repoTime      == IF Truthy(commit.repoCreatedAt)
                              THEN GetTime(commit.repoCreatedAt)
                              ELSE Infinity
         IN  IF Lt(commitTime, repoTime)
             THEN Coalesce(commit.repoCreatedAt, u.createdAt)
             ELSE IF Lt(commitTime, GetTime(u.createdAt)) THEN effectiveDate
                  ELSE u.createdAt

\* mutant: the chosen instant is written out again with toISOString
resolveProofDate_Reserialised(u, commit, clock) ==
    IF commit = NULL THEN ToISOString(clock)
    ELSE LET effectiveDate == getEffectiveCommitDate(commit)
             commitTime    == GetTime(effectiveDate)
             accountTime   == GetTime(u.createdAt)
             repoTime      == IF Truthy(commit.repoCreatedAt)
                              THEN GetTime(commit.repoCreatedAt)
                              ELSE Infinity
             chosen        == IF Lt(commitTime, repoTime)
                              THEN Coalesce(commit.repoCreatedAt, u.createdAt)
                              ELSE IF Lt(commitTime, accountTime) THEN effectiveDate
                                   ELSE u.createdAt
         IN  IF GetTime(chosen).kind = "num" THEN ToISOString(GetTime(chosen)) ELSE chosen

\* mutant: the last comparison is written !(accountTime <= commitTime), which
\* is true on NaN
resolveProofDate_NegatedComparison(u, commit, clock) ==
    IF commit = NULL THEN ToISOString(clock)
    ELSE LET effectiveDate == getEffectiveCommitDate(commit)
             commitTime    == GetTime(effectiveDate)
             accountTime   == GetTime(u.createdAt)
             repoTime      == IF Truthy(commit.repoCreatedAt)
                              THEN GetTime(commit.repoCreatedAt)
                              ELSE Infinity
         IN  IF Lt(commitTime, repoTime)
             THEN Coalesce(commit.repoCreatedAt, u.createdAt)
             ELSE IF ~Le(accountTime, commitTime) THEN effectiveDate
                  ELSE u.createdAt

\* clock: the instant new Date() reads
resolveProofDate(u, commit, clock) ==
    IF commit = NULL THEN ToISOString(clock)
    ELSE LET effectiveDate == getEffectiveCommitDate(commit)
             commitTime    == GetTime(effectiveDate)
             accountTime   == GetTime(u.createdAt)
             repoTime      == IF Truthy(commit.repoCreatedAt)
                              THEN GetTime(commit.repoCreatedAt)
                              ELSE Infinity
         IN  IF Lt(commitTime, repoTime)
             THEN Coalesce(commit.repoCreatedAt, u.createdAt)
             ELSE IF Lt(commitTime, accountTime) THEN effectiveDate
                  ELSE u.createdAt

\* mutant: the era is left out of the payload
generateCertificateHash_NoEra(username, githubId, proofDate, era) ==
    hashFn(JSONStringify(username, githubId, proofDate, "LAST_GEN", CERTIFICATE_SALT))

generateCertificateHash(username, githubId, proofDate, era) ==
    LET payload == JSONStringify(username, githubId, proofDate, era, CERTIFICATE_SALT)
    IN  hashFn(payload)

HexValue(c) == (CHOOSE i \in DOMAIN HexDigits : HexDigits[i] = c) - 1

RECURSIVE ParseHexMod(_, _, _)
\* parseInt(cs, 16) % m for a string of hex digits, reduced digit by digit so
\* that no intermediate value leaves the integer range
ParseHexMod(cs, m, acc) ==
    IF cs = <<>> THEN acc
    ELSE ParseHexMod(Tail(cs), m, (acc * 16 + HexValue(Head(cs))) % m)

DecimalDigits == <<"0", "1", "2", "3", "4", "5", "6", "7", "8", "9">>

RECURSIVE ToDecimal(_)
\* String(n), n >= 0
ToDecimal(n) ==
    IF n < 10 THEN <<DecimalDigits[n + 1]>>
    ELSE ToDecimal(n \div 10) \o <<DecimalDigits[(n % 10) + 1]>>

\* String.prototype.padStart(width, "0")
PadStart(cs, width) ==
    IF Len(cs) >= width THEN cs ELSE [i \in 1..(width - Len(cs)) |-> "0"] \o cs

\* mutant: the number is not padded
generateCertificateNumber_NoPad(h) ==
    LET prefix      == ToUpperCase(Slice(h, 0, 4))
        numericPart == ParseHexMod(Slice(h, 4, 12).chars, 1000000, 0)
    IN  Str(<<"L", "G", "C", "-">> \o prefix.chars \o <<"-">> \o ToDecimal(numericPart))

generateCertificateNumber(h) ==
    LET prefix      == ToUpperCase(Slice(h, 0, 4))
        numericPart == ParseHexMod(Slice(h, 4, 12).chars, 1000000, 0)
        padded      == PadStart(ToDecimal(numericPart), 6)
    IN  Str(<<"L", "G", "C", "-">> \o prefix.chars \o <<"-">> \o padded)

\* mutant: the hash is taken over the account creation date, not the proof date
createCertificate_HashOfAccountDate(u, commit, clockResolve, clockIssue) ==
    LET proofDate == resolveProofDate(u, commit, clockResolve)
        era       == classifyEra(proofDate)
        hash      == generateCertificateHash(u.login, u.id, u.createdAt, era)
    IN  [version  |-> CERTIFICATE_VERSION,
         type     |-> CERTIFICATE_TYPE,
         identity |-> [username |-> u.login, githubId |-> u.id, name |-> u.name],
         proof    |-> [accountCreated |-> u.createdAt,
                       firstCommit |-> IF commit # NULL THEN commit
                                       ELSE [date |-> u.createdAt,
                                             repo |-> EmptyStr,
                                             sha |-> EmptyStr,
                                             message |-> NO_COMMIT_MESSAGE,
                                             repoCreatedAt |-> NULL,
                                             committerDate |-> NULL],
                       proofDate |-> proofDate],
         era      |-> era,
         verification |-> [hash |-> Concat(SHA256_PREFIX, hash),
                           salt |-> CERTIFICATE_SALT],
         certificateNumber |-> generateCertificateNumber(hash),
         issuedAt |-> ToISOString(clockIssue)]

\* clockResolve, clockIssue: the instants read by the two new Date() calls
createCertificate(u, commit, clockResolve, clockIssue) ==
    LET proofDate         == resolveProofDate(u, commit, clockResolve)
        era               == classifyEra(proofDate)
        hash              == generateCertificateHash(u.login, u.id, proofDate, era)
        certificateNumber == generateCertificateNumber(hash)
    IN  [version  |-> CERTIFICATE_VERSION,
         type     |-> CERTIFICATE_TYPE,
         identity |-> [username |-> u.login, githubId |-> u.id, name |-> u.name],
         proof    |-> [accountCreated |-> u.createdAt,
                       firstCommit |-> IF commit # NULL THEN commit
                                       ELSE [date |-> u.createdAt,
                                             repo |-> EmptyStr,
                                             sha |-> EmptyStr,
                                             message |-> NO_COMMIT_MESSAGE,
                                             repoCreatedAt |-> NULL,
                                             committerDate |-> NULL],
                       proofDate |-> proofDate],
         era      |-> era,
         verification |-> [hash |-> Concat(SHA256_PREFIX, hash),
                           salt |-> CERTIFICATE_SALT],
         certificateNumber |-> certificateNumber,
         issuedAt |-> ToISOString(clockIssue)]

-----------------------------------------------------------------------------
(* core/verify.ts                                                          *)

SIXTY_SECONDS_MS == Num(0, 60000)

\* typeof v for the values of a parsed certificate file
TypeOf(v) ==
    CASE v = UNDEFINED -> "undefined"
      [] v = NULL -> "object"
      [] "chars" \in DOMAIN v \/ "frac" \in DOMAIN v -> "string"
      [] "id" \in DOMAIN v -> "number"
      [] OTHER -> "object"

\* data is a parsed JSON object
isValidCertificate(data) ==
    /\ data.type = CERTIFICATE_TYPE
    /\ TypeOf(data.version) = "string"
    /\ TypeOf(data.identity) = "object"
    /\ TypeOf(data.proof) = "object"
    /\ TypeOf(data.verification) = "object"
    /\ TypeOf(data.certificateNumber) = "string"

\* the property reads of verifyCertificateData outside its try block that
\* throw a TypeError: cert.identity.username, cert.proof.proofDate,
\* cert.verification.hash.replace(...), cert.proof.firstCommit.sha
TypeErrorBeforeFetch(cert) ==
    \/ cert.identity = NULL
    \/ cert.proof = NULL
    \/ cert.verification = NULL
    \/ TypeOf(cert.verification.hash) # "string"
    \/ cert.proof.firstCommit \in {NULL, UNDEFINED}

\* verifyCertificateData rejected its promise with a TypeError
TypeError == [thrown |-> "TypeError"]

NOREPLY_DOMAIN ==
    <<"@", "u", "s", "e", "r", "s", ".", "n", "o", "r", "e", "p", "l", "y", ".",
      "g", "i", "t", "h", "u", "b", ".", "c", "o", "m">>

\* index of the first occurrence of pat in cs, 0 when there is none
IndexOf(cs, pat) ==
    LET hits == {i \in 1..(Len(cs) - Len(pat) + 1) :
                    SubSeq(cs, i, i + Len(pat) - 1) = pat}
    IN  IF hits = {} THEN 0 ELSE CHOOSE i \in hits : \A j \in hits : i <= j

\* String.prototype.replace(pat, ''), pat a non-empty string
ReplaceWithEmpty(str, pat) ==
    LET i == IndexOf(str.chars, pat.chars)
    IN  IF i = 0 THEN str
        ELSE Str(SubSeq(str.chars, 1, i - 1)
                 \o SubSeq(str.chars, i + Len(pat.chars), Len(str.chars)))

\* String.prototype.split('/')[0]
SplitFirst(str) ==
    LET i == IndexOf(str.chars, <<"/">>)
    IN  IF i = 0 THEN str ELSE Str(SubSeq(str.chars, 1, i - 1))

IsDigit(c) == c \in {DecimalDigits[i] : i \in DOMAIN DecimalDigits}

\* mutant: any prefix ending in '+' is accepted
matchesNoreplyEmail_AnyPrefix(email, username) ==
    LET lower  == ToLowerCase(email).chars
        usr    == ToLowerCase(username).chars
        tail   == usr \o NOREPLY_DOMAIN
        n      == Len(lower) - Len(tail)
        prefix == SubSeq(lower, 1, n)
    IN  /\ n >= 0
        /\ SubSeq(lower, n + 1, Len(lower)) = tail
        /\ \/ n = 0
           \/ /\ n >= 2
              /\ prefix[n] = "+"

\* /^(\d+\+)?<user>@users\.noreply\.github\.com$/ with <user> taken literally
\* (escapeRegex), tested on the lower-cased email
matchesNoreplyEmail(email, username) ==
    LET lower  == ToLowerCase(email).chars
        usr    == ToLowerCase(username).chars
        tail   == usr \o NOREPLY_DOMAIN
        n      == Len(lower) - Len(tail)
        prefix == SubSeq(lower, 1, n)
    IN  /\ n >= 0
        /\ SubSeq(lower, n + 1, Len(lower)) = tail
        /\ \/ n = 0
           \/ /\ n >= 2
              /\ prefix[n] = "+"
              /\ \A i \in 1..(n - 1) : IsDigit(prefix[i])

Result(check, passed, msg, with) ==
    [check |-> check, passed |-> passed, detail |-> [msg |-> msg, with |-> with]]

\* Math.round(driftMs / (24 * 60 * 60 * 1000)), driftMs >= 0
RoundDays(driftMs) ==
    [days |-> driftMs.day + (IF 2 * driftMs.ms >= MS_PER_DAY THEN 1 ELSE 0)]

\* mutant: the payload takes the salt stored in the certificate
hashIntegrityCheck_StoredSalt(cert) ==
    LET expectedHash == hashFn(JSONStringify(cert.identity.username,
                            cert.identity.githubId, cert.proof.proofDate, cert.era,
                            cert.verification.salt))
        actualHash   == ReplaceWithEmpty(cert.verification.hash, SHA256_PREFIX)
    IN  Result("Hash integrity", expectedHash = actualHash,
               IF expectedHash = actualHash
               THEN "Certificate hash is valid"
               ELSE "Certificate hash does not match - data may have been tampered with",
               <<>>)

hashIntegrityCheck(cert) ==
    LET expectedHash == generateCertificateHash(cert.identity.username,
                            cert.identity.githubId, cert.proof.proofDate, cert.era)
        actualHash   == ReplaceWithEmpty(cert.verification.hash, SHA256_PREFIX)
    IN  Result("Hash integrity", expectedHash = actualHash,
               IF expectedHash = actualHash
               THEN "Certificate hash is valid"
               ELSE "Certificate hash does not match - data may have been tampered with",
               <<>>)

\* mutant: the cutoff instant itself still counts as LAST_GEN
eraClassificationCheck_UpToCutoff(cert) ==
    LET proofDate      == GetTime(cert.proof.proofDate)
        cutoff         == GetTime(CUTOFF_DATE)
        isBeforeCutoff == Le(proofDate, cutoff)
        expectedEra    == IF isBeforeCutoff THEN "LAST_GEN" ELSE "AI_NATIVE"
    IN  Result("Era classification", cert.era = expectedEra,
               IF cert.era = expectedEra
               THEN "Era is correct for proof date"
               ELSE "Era should be expectedEra but certificate claims era",
               <<[era |-> expectedEra], [era |-> cert.era], cert.proof.proofDate>>)

eraClassificationCheck(cert) ==
    LET proofDate      == GetTime(cert.proof.proofDate)
        cutoff         == GetTime(CUTOFF_DATE)
        isBeforeCutoff == Lt(proofDate, cutoff)
        expectedEra    == IF isBeforeCutoff THEN "LAST_GEN" ELSE "AI_NATIVE"
    IN  Result("Era classification", cert.era = expectedEra,
               IF cert.era = expectedEra
               THEN "Era is correct for proof date"
               ELSE "Era should be expectedEra but certificate claims era",
               <<[era |-> expectedEra], [era |-> cert.era], cert.proof.proofDate>>)

reconstructedUser(cert) ==
    [login |-> cert.identity.username, id |-> cert.identity.githubId,
     name |-> cert.identity.name, createdAt |-> cert.proof.accountCreated]

reconstructedCommit(cert) ==
    IF Truthy(cert.proof.firstCommit.sha) THEN cert.proof.firstCommit ELSE NULL

\* mutant: a difference of exactly 60 seconds is still accepted
proofDateCheck_Inclusive(cert, clock) ==
    LET proofDate         == GetTime(cert.proof.proofDate)
        expectedProofDate == resolveProofDate(reconstructedUser(cert),
                                              reconstructedCommit(cert), clock)
        proofDateMatch    == Le(MathAbs(Minus(GetTime(expectedProofDate), proofDate)),
                                SIXTY_SECONDS_MS)
    IN  Result("Proof date", proofDateMatch,
               IF proofDateMatch
               THEN "Proof date is consistent with commit and account data"
               ELSE "Proof date should be expectedProofDate but certificate claims proofDate",
               <<expectedProofDate, cert.proof.proofDate>>)

proofDateCheck(cert, clock) ==
    LET proofDate         == GetTime(cert.proof.proofDate)
        expectedProofDate == resolveProofDate(reconstructedUser(cert),
                                              reconstructedCommit(cert), clock)
        proofDateMatch    == Lt(MathAbs(Minus(GetTime(expectedProofDate), proofDate)),
                                SIXTY_SECONDS_MS)
    IN  Result("Proof date", proofDateMatch,
               IF proofDateMatch
               THEN "Proof date is consistent with commit and account data"
               ELSE "Proof date should be expectedProofDate but certificate claims proofDate",
               <<expectedProofDate, cert.proof.proofDate>>)

identityCheck(cert, detail) ==
    LET username       == ToLowerCase(cert.identity.username)
        authorMatch    == ToLowerCase(Coalesce(detail.authorLogin, EmptyStr)) = username
        committerMatch == ToLowerCase(Coalesce(detail.committerLogin, EmptyStr)) = username
        emailMatch     == IF Truthy(detail.authorEmail)
                          THEN matchesNoreplyEmail(detail.authorEmail, cert.identity.username)
                          ELSE FALSE
        identityMatch  == authorMatch \/ committerMatch \/ emailMatch
        matchMethods   == (IF authorMatch THEN <<"author login">> ELSE <<>>)
                          \o (IF committerMatch THEN <<"committer login">> ELSE <<>>)
                          \o (IF emailMatch THEN <<"noreply email">> ELSE <<>>)
    IN  Result("Identity", identityMatch,
               IF identityMatch THEN "Matched via" ELSE "Commit author does not match",
               IF identityMatch THEN <<[methods |-> matchMethods]>>
               ELSE <<detail.authorLogin, cert.identity.username>>)

repoOwnershipCheck(cert) ==
    LET repoOwner   == SplitFirst(cert.proof.firstCommit.repo)
        isSelfOwned == ToLowerCase(repoOwner) = ToLowerCase(cert.identity.username)
    IN  Result("Repo ownership", TRUE,
               IF isSelfOwned THEN "Commit is in a repo owned by username"
               ELSE "Commit is in a third-party repo",
               IF isSelfOwned THEN <<cert.identity.username>>
               ELSE <<cert.proof.firstCommit.repo>>)

\* mutant: the GitHub ID check is informational
githubIdCheck_Informational(cert, detail) ==
    IF detail.authorId # NULL
    THEN LET idMatch == detail.authorId = cert.identity.githubId
         IN  <<Result("GitHub ID", TRUE,
                      IF idMatch THEN "GitHub ID matches certificate"
                      ELSE "Commit author ID does not match certificate ID",
                      <<detail.authorId, cert.identity.githubId>>)>>
    ELSE <<>>

githubIdCheck(cert, detail) ==
    IF detail.authorId # NULL
    THEN LET idMatch == detail.authorId = cert.identity.githubId
         IN  <<Result("GitHub ID", idMatch,
                      IF idMatch THEN "GitHub ID matches certificate"
                      ELSE "Commit author ID does not match certificate ID",
                      <<detail.authorId, cert.identity.githubId>>)>>
    ELSE <<>>

\* mutant: a difference of exactly 60 seconds is still accepted
commitDateCheck_Inclusive(cert, detail) ==
    LET commitDate == GetTime(Coalesce(detail.authorDate, EmptyStr))
        certDate   == GetTime(cert.proof.firstCommit.date)
        datesClose == Le(MathAbs(Minus(commitDate, certDate)), SIXTY_SECONDS_MS)
    IN  Result("Commit date", datesClose,
               IF datesClose THEN "Commit date matches certificate"
               ELSE "Commit date differs from certificate",
               <<detail.authorDate, cert.proof.firstCommit.date>>)

commitDateCheck(cert, detail) ==
    LET commitDate == GetTime(Coalesce(detail.authorDate, EmptyStr))
        certDate   == GetTime(cert.proof.firstCommit.date)
        datesClose == Lt(MathAbs(Minus(commitDate, certDate)), SIXTY_SECONDS_MS)
    IN  Result("Commit date", datesClose,
               IF datesClose THEN "Commit date matches certificate"
               ELSE "Commit date differs from certificate",
               <<detail.authorDate, cert.proof.firstCommit.date>>)

\* mutant: the drift is signed, committer date minus author date
dateConsistencyCheck_SignedDrift(detail) ==
    IF Truthy(detail.authorDate) /\ Truthy(detail.committerDate)
    THEN LET authorTime    == GetTime(detail.authorDate)
             committerTime == GetTime(detail.committerDate)
             driftMs       == Minus(committerTime, authorTime)
             driftDays     == IF driftMs.kind = "num" THEN RoundDays(MathAbs(driftMs))
                              ELSE [days |-> -1]
             consistent    == Le(driftMs, THIRTY_DAYS_MS)
         IN  <<Result("Date consistency", consistent,
                      IF consistent
                      THEN "Author/committer date drift within 30d threshold"
                      ELSE "Author/committer date drift exceeds 30d - author date may be forged",
                      <<driftDays>>)>>
    ELSE <<>>

\* mutant: a drift of up to 31 days is accepted
dateConsistencyCheck_31Days(detail) ==
    IF Truthy(detail.authorDate) /\ Truthy(detail.committerDate)
    THEN LET authorTime    == GetTime(detail.authorDate)
             committerTime == GetTime(detail.committerDate)
             driftMs       == MathAbs(Minus(committerTime, authorTime))
             driftDays     == IF driftMs.kind = "num" THEN RoundDays(driftMs)
                              ELSE [days |-> -1]
             consistent    == Le(driftMs, Num(31, 0))
         IN  <<Result("Date consistency", consistent,
                      IF consistent
                      THEN "Author/committer date drift within 30d threshold"
                      ELSE "Author/committer date drift exceeds 30d - author date may be forged",
                      <<driftDays>>)>>
    ELSE <<>>

dateConsistencyCheck(detail) ==
    IF Truthy(detail.authorDate) /\ Truthy(detail.committerDate)
    THEN LET authorTime    == GetTime(detail.authorDate)
             committerTime == GetTime(detail.committerDate)
             driftMs       == MathAbs(Minus(committerTime, authorTime))
             driftDays     == IF driftMs.kind = "num" THEN RoundDays(driftMs)
                              ELSE [days |-> -1]
             consistent    == Le(driftMs, THIRTY_DAYS_MS)
         IN  <<Result("Date consistency", consistent,
                      IF consistent
                      THEN "Author/committer date drift within 30d threshold"
                      ELSE "Author/committer date drift exceeds 30d - author date may be forged",
                      <<driftDays>>)>>
    ELSE <<>>

rootCommitCheck(detail) ==
    IF detail.isRootCommit
    THEN <<Result("Root commit", TRUE,
                  "Commit has no parents (first commit in repo - higher trust)", <<>>)>>
    ELSE <<>>

gpgSignatureCheck(detail) ==
    IF detail.verified
    THEN LET reason       == detail.verificationReason
             reasonDetail == IF Truthy(reason) /\ reason # Str(<<"v", "a", "l", "i", "d">>)
                             THEN <<reason>> ELSE <<>>
         IN  <<Result("GPG signature", TRUE, "Commit is GPG-signed", reasonDetail)>>
    ELSE <<>>

\* mutant: the GitHub ID check comes after the Commit date check
commitChecks_IdAfterDate(cert, fetched) ==
    IF fetched.ok
    THEN <<identityCheck(cert, fetched.detail), repoOwnershipCheck(cert)>>
         \o <<commitDateCheck(cert, fetched.detail)>>
         \o githubIdCheck(cert, fetched.detail)
         \o dateConsistencyCheck(fetched.detail)
         \o rootCommitCheck(fetched.detail)
         \o gpgSignatureCheck(fetched.detail)
    ELSE <<Result("Commit verification", FALSE,
                  "Could not fetch commit from GitHub", <<fetched.message>>)>>

\* mutant: a failed fetch is recorded as informational
commitChecks_FetchFailureInformational(cert, fetched) ==
    IF fetched.ok
    THEN <<identityCheck(cert, fetched.detail), repoOwnershipCheck(cert)>>
         \o githubIdCheck(cert, fetched.detail)
         \o <<commitDateCheck(cert, fetched.detail)>>
         \o dateConsistencyCheck(fetched.detail)
         \o rootCommitCheck(fetched.detail)
         \o gpgSignatureCheck(fetched.detail)
    ELSE <<Result("Commit verification", TRUE,
                  "Could not fetch commit from GitHub", <<fetched.message>>)>>

\* the checks of the try block; fetched is what fetchCommit did: it returned a
\* CommitDetail (ok) or threw an Error carrying a message
commitChecks(cert, fetched) ==
    IF fetched.ok
    THEN <<identityCheck(cert, fetched.detail), repoOwnershipCheck(cert)>>
         \o githubIdCheck(cert, fetched.detail)
         \o <<commitDateCheck(cert, fetched.detail)>>
         \o dateConsistencyCheck(fetched.detail)
         \o rootCommitCheck(fetched.detail)
         \o gpgSignatureCheck(fetched.detail)
    ELSE <<Result("Commit verification", FALSE,
                  "Could not fetch commit from GitHub", <<fetched.message>>)>>

\* mutant: the commit is fetched whenever the certificate names a repo
fetchCommitCalls_WhenRepo(cert) ==
    IF Truthy(cert.proof.firstCommit.repo)
    THEN <<[fn |-> "fetchCommit", repo |-> cert.proof.firstCommit.repo,
            sha |-> cert.proof.firstCommit.sha]>>
    ELSE <<>>

\* the Data Source calls of verifyCertificateData, in order
fetchCommitCalls(cert) ==
    IF Truthy(cert.proof.firstCommit.sha)
    THEN <<[fn |-> "fetchCommit", repo |-> cert.proof.firstCommit.repo,
            sha |-> cert.proof.firstCommit.sha]>>
    ELSE <<>>

\* mutant: the verdict is taken from the three checks made without live data
verifyCertificateData_FirstThree(cert, fetched, clock) ==
    IF TypeErrorBeforeFetch(cert) THEN TypeError
    ELSE
    LET results == <<hashIntegrityCheck(cert),
                     eraClassificationCheck(cert),
                     proofDateCheck(cert, clock)>>
                   \o (IF Truthy(cert.proof.firstCommit.sha)
                       THEN commitChecks(cert, fetched)
                       ELSE <<>>)
        allPassed == \A i \in 1..3 : results[i].passed
    IN  [valid |-> allPassed,
         results |-> results,
         certificateNumber |-> cert.certificateNumber,
         username |-> cert.identity.username]

\* fetched is read only when the certificate names a commit (non-empty sha)
verifyCertificateData(cert, fetched, clock) ==
    IF TypeErrorBeforeFetch(cert) THEN TypeError
    ELSE
    LET results == <<hashIntegrityCheck(cert),
                     eraClassificationCheck(cert),
                     proofDateCheck(cert, clock)>>
                   \o (IF Truthy(cert.proof.firstCommit.sha)
                       THEN commitChecks(cert, fetched)
                       ELSE <<>>)
        allPassed == \A i \in DOMAIN results : results[i].passed
    IN  [valid |-> allPassed,
         results |-> results,
         certificateNumber |-> cert.certificateNumber,
         username |-> cert.identity.username]

\* verify-cli.ts: "File is not a valid lastgen certificate.", nothing verified
Rejected == [rejected |-> "File is not a valid lastgen certificate."]

-----------------------------------------------------------------------------
(* core/github.ts: the search for the first commit                         *)

\* an Error thrown by a Data Source call
Thrown(message) == [thrown |-> message]

IsThrown(r) == "thrown" \in DOMAIN r

RATE_LIMIT_MESSAGE == "GitHub API rate limit exceeded. Resets at soon."

\* GitHub's commit search: the commits authored by username that the query
\* 'author:username [user:username] [committer-date:<2025-02-21]' matches
SearchItems(commits, username, ownedOnly, beforeCutoff) ==
    {c \in commits :
        /\ ownedOnly => ToLowerCase(SplitFirst(c.repo)) = ToLowerCase(username)
        /\ beforeCutoff => Lt(GetTime(c.committerDate), GetTime(CUTOFF_DATE))}

\* sort=committer-date&order=...&per_page=1: items[0] of the response
FirstItem(items, order) ==
    CHOOSE c \in items :
        \A d \in items :
            d # c => IF order = "asc"
                     THEN Lt(GetTime(c.committerDate), GetTime(d.committerDate))
                     ELSE Lt(GetTime(d.committerDate), GetTime(c.committerDate))

\* outcome: "ok", "rate limit" (githubFetch throws the rate limit Error) or
\* "error" (any other Error)
searchFirstCommitByQuery(items, order, outcome) ==
    CASE outcome = "rate limit" -> Thrown(RATE_LIMIT_MESSAGE)
      [] outcome = "error" -> NULL
      [] OTHER ->
           IF items = {} THEN NULL
           ELSE LET item == FirstItem(items, order)
                IN  [date |-> item.date, repo |-> item.repo, sha |-> item.sha,
                     message |-> item.message, repoCreatedAt |-> NULL,
                     committerDate |-> item.committerDate]

\* a ?? b for an awaited a that may throw
OrElse(a, b) == IF IsThrown(a) THEN a ELSE IF a # NULL THEN a ELSE b

\* outcomes[k]: what the k-th query does when it is made
searchFirstCommit(commits, username, outcomes) ==
    OrElse(searchFirstCommitByQuery(SearchItems(commits, username, TRUE, TRUE),
                                    "desc", outcomes[1]),
    OrElse(searchFirstCommitByQuery(SearchItems(commits, username, FALSE, TRUE),
                                    "desc", outcomes[2]),
           searchFirstCommitByQuery(SearchItems(commits, username, FALSE, FALSE),
                                    "asc", outcomes[3])))

\* repoCreated: what fetchRepoCreatedAt returns, NULL for undefined
fetchFirstCommit(commits, username, outcomes, repoCreated) ==
    LET commit == searchFirstCommit(commits, username, outcomes)
    IN  IF IsThrown(commit) THEN commit
        ELSE IF commit # NULL /\ Truthy(commit.repo)
        THEN [commit EXCEPT !.repoCreatedAt = repoCreated]
        ELSE commit

-----------------------------------------------------------------------------
(* web/lookup.ts: the lookup flow with its in-memory cache                 *)

CACHE_TTL_MS == 5 * 60 * 1000

USER_NOT_FOUND_MESSAGE == "GitHub user not found. Check the spelling?"

\* fetchUser(username) on a GitHub that knows one account (logins are matched
\* without regard to case); outcome "rate limit": githubFetch throws
fetchUser(account, username, outcome) ==
    IF outcome = "rate limit" THEN Thrown(RATE_LIMIT_MESSAGE)
    ELSE IF ToLowerCase(username) = ToLowerCase(account.login) THEN account
    ELSE Thrown(USER_NOT_FOUND_MESSAGE)

\* cache.get(key): the entry stored under key, UNDEFINED when there is none
CacheGet(c, key) ==
    IF \E e \in c : e.key = key THEN CHOOSE e \in c : e.key = key ELSE UNDEFINED

\* mutant: an entry is kept for six minutes
getCached_SixMinutes(c, username, clock) ==
    LET key   == ToLowerCase(username)
        entry == CacheGet(c, key)
    IN  IF entry = UNDEFINED THEN [returned |-> NULL, cache |-> c]
        ELSE IF Gt(Minus(clock, entry.timestamp), Num(0, 6 * 60 * 1000))
        THEN [returned |-> NULL, cache |-> c \ {entry}]
        ELSE [returned |-> entry.certificate, cache |-> c]

\* getCached(username) when Date.now() is clock: what it returns and the
\* cache it leaves
getCached(c, username, clock) ==
    LET key   == ToLowerCase(username)
        entry == CacheGet(c, key)
    IN  IF entry = UNDEFINED THEN [returned |-> NULL, cache |-> c]
        ELSE IF Gt(Minus(clock, entry.timestamp), Num(0, CACHE_TTL_MS))
        THEN [returned |-> NULL, cache |-> c \ {entry}]
        ELSE [returned |-> entry.certificate, cache |-> c]

\* setCache(username, certificate) when Date.now() is clock
setCache(c, username, certificate, clock) ==
    LET key == ToLowerCase(username)
    IN  {e \in c : e.key # key}
            \cup {[key |-> key, certificate |-> certificate, timestamp |-> clock]}

\* lookupUser(username, onStatus): what it returns or throws, the cache it
\* leaves, the Data Source calls it made and the status messages it sent.
\* clock: Date.now() when the cache is read and the proof date resolved;
\* clockIssue: when the certificate is stamped and stored
lookupUser(c, username, account, commits, userOutcome, outcomes, repoCreated, clock, clockIssue) ==
    LET cached == getCached(c, username, clock)
        u      == fetchUser(account, username, userOutcome)
        commit == fetchFirstCommit(commits, u.login, outcomes, repoCreated)
        certificate == createCertificate(u, commit, clock, clockIssue)
    IN  IF cached.returned # NULL
        THEN [returned |-> cached.returned, cache |-> cached.cache, calls |-> <<>>,
              status |-> <<"Using cached result...">>]
        ELSE IF IsThrown(u)
        THEN [returned |-> u, cache |-> cached.cache, calls |-> <<"fetchUser">>,
              status |-> <<"Fetching GitHub profile...">>]
        ELSE IF IsThrown(commit)
        THEN [returned |-> commit, cache |-> cached.cache,
              calls |-> <<"fetchUser", "fetchFirstCommit">>,
              status |-> <<"Fetching GitHub profile...",
                           "Searching for earliest commit...">>]
        ELSE [returned |-> certificate,
              cache |-> setCache(cached.cache, username, certificate, clockIssue),
              calls |-> <<"fetchUser", "fetchFirstCommit">>,
              status |-> <<"Fetching GitHub profile...",
                           "Searching for earliest commit...",
                           "Generating certificate...">>]

-----------------------------------------------------------------------------
(* Bounds and input sets.                                                  *)

MaxIssued == 2     \* certificates issued in one run
MaxClock == 3      \* instants the clock can show

\* t + ms for ms < MS_PER_DAY
PlusMs(t, ms) ==
    IF t.ms + ms < MS_PER_DAY THEN Num(t.day, t.ms + ms)
    ELSE Num(t.day + 1, t.ms + ms - MS_PER_DAY)

\* one millisecond before the cutoff
ClockStart == Num(20139, MS_PER_DAY - 1)

\* ms after ClockStart of the instants the clock can show
ClockOffsets == <<0, 1, 60001, 300002, 600000>>

Clock == {PlusMs(ClockStart, ClockOffsets[i]) :
             i \in {j \in DOMAIN ClockOffsets : j <= MaxClock}}

alice == Str(<<"a", "l", "i", "c", "e">>)
Alice == Str(<<"A", "l", "i", "c", "e">>)
bob   == Str(<<"b", "o", "b">>)

Id(n) == [id |-> n]

aliceRepo == Str(<<"a", "l", "i", "c", "e", "/", "r">>)
bobRepo   == Str(<<"b", "o", "b", "/", "r">>)
someSha   == Str(<<"3", "1", "9", "f", "c", "7", "7">>)

\* 30 days and one millisecond after 2019-06-01T00:00:00Z
JustOver30Days == DateString(2019, 7, 1, 0, 0, 0, 1, TRUE)
JustBeforeCutoff == DateString(2025, 2, 20, 23, 59, 59, 999, TRUE)

Commit(date, committerDate, repoCreatedAt) ==
    [date |-> date, repo |-> aliceRepo, sha |-> someSha, message |-> "Initial commit",
     repoCreatedAt |-> repoCreatedAt, committerDate |-> committerDate]

User(login, id, createdAt) ==
    [login |-> login, id |-> id, name |-> NULL, createdAt |-> createdAt]

\* the wide input space: every order of the four dates, drift of exactly 30
\* days, of 30 days and 1 ms, negative drift, absent and unparseable dates
AuthorDates ==
    {Midnight(2015, 1, 1), Midnight(2019, 6, 1), Midnight(2019, 7, 1), NotADate}
CommitterDates ==
    {NULL, Midnight(2019, 1, 1), Midnight(2019, 7, 1), JustOver30Days,
     Midnight(2024, 6, 1), NotADate}
RepoDates ==
    {NULL, Midnight(2019, 1, 1), Midnight(2019, 6, 1), JustOver30Days,
     Midnight(2020, 1, 1), NotADate}
AccountDates ==
    {Midnight(2019, 1, 1), Midnight(2019, 6, 1), Midnight(2019, 7, 1),
     Midnight(2020, 1, 1), CUTOFF_DATE, NotADate}

WideUsers == {User(alice, Id(1001), d) : d \in AccountDates}

WideCommits ==
    {Commit(a, c, r) : a \in AuthorDates, c \in CommitterDates, r \in RepoDates}

\* the narrow input space
NarrowUsers ==
    {User(alice, Id(1001), Midnight(2020, 1, 1)),
     User(Alice, Id(1002), CUTOFF_DATE)}

NarrowCommits ==
    {Commit(Midnight(2019, 6, 1), NULL, Midnight(2019, 1, 1)),
     Commit(Midnight(2019, 6, 1), Midnight(2024, 6, 1), NULL)}

-----------------------------------------------------------------------------
(* Certificates handed to the verifier: an issued certificate as it is, or *)
(* with one field edited.                                                  *)

OtherEra(era) == IF era = "LAST_GEN" THEN "AI_NATIVE" ELSE "LAST_GEN"

OtherDate(d) ==
    IF d = Midnight(2015, 1, 1) THEN Midnight(2026, 1, 1) ELSE Midnight(2015, 1, 1)

\* t + delta for |delta| < MS_PER_DAY
AddMs(t, delta) ==
    LET m == t.ms + delta
    IN  IF m < 0 THEN Num(t.day - 1, m + MS_PER_DAY)
        ELSE IF m >= MS_PER_DAY THEN Num(t.day + 1, m - MS_PER_DAY)
        ELSE Num(t.day, m)

\* the date string of the instant days and ms after the instant str names
Shift(str, days, ms) ==
    LET t == GetTime(IF IsDate(str) THEN str ELSE Midnight(2019, 6, 1))
    IN  ToISOString(AddMs(Num(t.day + days, t.ms), ms))

\* fields the hash payload is built from, and the stored hash
HashedEdits == {"era", "proofDate", "username", "githubId", "hash"}

\* every other field
OtherEdits ==
    {"name", "accountCreated", "commitDate", "repo", "sha", "message",
     "repoCreatedAt", "committerDate", "certificateNumber", "issuedAt",
     "version", "salt"}

\* the edits made to the certificates that are presented
Edits == {"none", "era", "proofDate", "hash", "sha", "accountCreated"}

Edit(cert, e) ==
    CASE e = "none" -> cert
      [] e = "era" -> [cert EXCEPT !.era = OtherEra(@)]
      [] e = "proofDate" -> [cert EXCEPT !.proof.proofDate = OtherDate(@)]
      [] e = "username" -> [cert EXCEPT !.identity.username = IF @ = bob THEN alice ELSE bob]
      [] e = "githubId" -> [cert EXCEPT !.identity.githubId = Id(@.id + 1)]
      [] e = "hash" -> [cert EXCEPT !.verification.hash =
                            Concat(SHA256_PREFIX, Str([i \in 1..HASH_HEX_LENGTH |-> "0"]))]
      [] e = "name" -> [cert EXCEPT !.identity.name = IF @ = NULL THEN bob ELSE NULL]
      [] e = "accountCreated" -> [cert EXCEPT !.proof.accountCreated = OtherDate(@)]
      [] e = "commitDate" -> [cert EXCEPT !.proof.firstCommit.date = OtherDate(@)]
      [] e = "repo" -> [cert EXCEPT !.proof.firstCommit.repo =
                            IF @ = bobRepo THEN aliceRepo ELSE bobRepo]
      [] e = "sha" -> [cert EXCEPT !.proof.firstCommit.sha =
                            IF @ = EmptyStr THEN someSha ELSE EmptyStr]
      [] e = "message" -> [cert EXCEPT !.proof.firstCommit.message = "edited"]
      [] e = "repoCreatedAt" -> [cert EXCEPT !.proof.firstCommit.repoCreatedAt =
                                    IF @ = NULL THEN Midnight(2015, 1, 1) ELSE NULL]
      [] e = "committerDate" -> [cert EXCEPT !.proof.firstCommit.committerDate =
                                    IF @ = NULL THEN Midnight(2026, 1, 1) ELSE NULL]
      [] e = "certificateNumber" -> [cert EXCEPT !.certificateNumber = Str(<<"L", "G", "C">>)]
      [] e = "issuedAt" -> [cert EXCEPT !.issuedAt = OtherDate(@)]
      [] e = "version" -> [cert EXCEPT !.version = Str(<<"2", ".", "0">>)]
      [] e = "salt" -> [cert EXCEPT !.verification.salt = Str(<<"s">>)]
      [] e = "proofDate+59999" -> [cert EXCEPT !.proof.proofDate = Shift(@, 0, 59999)]
      [] e = "proofDate+60000" -> [cert EXCEPT !.proof.proofDate = Shift(@, 0, 60000)]
      [] e = "proofDate-59999" -> [cert EXCEPT !.proof.proofDate = Shift(@, 0, -59999)]
      [] e = "proofDate-60000" -> [cert EXCEPT !.proof.proofDate = Shift(@, 0, -60000)]
      [] e = "proofDateCutoff" -> [cert EXCEPT !.proof.proofDate = CUTOFF_DATE]
      [] e = "eraRehashed" ->
            [cert EXCEPT !.era = OtherEra(@),
                         !.verification.hash =
                             Concat(SHA256_PREFIX,
                                    generateCertificateHash(cert.identity.username,
                                        cert.identity.githubId, cert.proof.proofDate,
                                        OtherEra(cert.era)))]
      [] e = "commitDateInvalid" -> [cert EXCEPT !.proof.firstCommit.date = NotADate]
      [] e = "identityNull" -> [cert EXCEPT !.identity = NULL]
      [] e = "proofNull" -> [cert EXCEPT !.proof = NULL]
      [] e = "verificationNull" -> [cert EXCEPT !.verification = NULL]
      [] e = "hashMissing" -> [cert EXCEPT !.verification.hash = UNDEFINED]
      [] e = "firstCommitMissing" -> [cert EXCEPT !.proof.firstCommit = UNDEFINED]
      [] e = "wrongType" -> [cert EXCEPT !.type = "CERTIFICATE"]
      [] e = "versionMissing" -> [cert EXCEPT !.version = UNDEFINED]

\* what GitHub returns for the commit the certificate names when nothing was forged
HonestDetail(cert) ==
    [sha |-> cert.proof.firstCommit.sha,
     authorLogin |-> cert.identity.username,
     committerLogin |-> cert.identity.username,
     authorEmail |-> Str(cert.identity.username.chars \o NOREPLY_DOMAIN),
     authorDate |-> cert.proof.firstCommit.date,
     committerDate |-> cert.proof.firstCommit.committerDate,
     authorId |-> cert.identity.githubId,
     verificationReason |-> NULL,
     isRootCommit |-> FALSE,
     message |-> cert.proof.firstCommit.message,
     verified |-> FALSE]

Fetched(detail) == [ok |-> TRUE, detail |-> detail, message |-> ""]
FetchFailed(message) == [ok |-> FALSE, detail |-> NULL, message |-> message]

FetchOutcomes(cert) ==
    {Fetched(HonestDetail(cert)),
     Fetched([HonestDetail(cert) EXCEPT !.authorLogin = bob, !.committerLogin = NULL,
                                        !.authorEmail = NULL, !.authorId = NULL,
                                        !.isRootCommit = TRUE, !.verified = TRUE]),
     FetchFailed("Not found")}

\* the Data Source responses the certificates on file were issued from
IssuedFrom ==
    {<<User(alice, Id(1001), Midnight(2020, 1, 1)),
       Commit(Midnight(2019, 6, 1), NULL, Midnight(2019, 1, 1))>>,
     <<User(Alice, Id(1002), CUTOFF_DATE),
       Commit(Midnight(2019, 6, 1), Midnight(2024, 6, 1), Midnight(2019, 1, 1))>>,
     <<User(alice, Id(1001), Midnight(2020, 1, 1)), NULL>>}

\* the certificate files handed to the verifier: what the files hold after
\* JSON.parse, well-formed certificates and objects of another shape
FileEdits ==
    {"none", "era", "proofDate", "hash", "sha", "accountCreated", "commitDate",
     "repoCreatedAt", "committerDate", "repo",
     "proofDate+59999", "proofDate+60000", "proofDate-59999", "proofDate-60000",
     "commitDateInvalid", "eraRehashed", "proofDateCutoff",
     "identityNull", "proofNull", "verificationNull", "hashMissing",
     "firstCommitMissing", "wrongType", "versionMissing"}

\* the parsed file has every property of a Certificate, each of its type
WellFormed(data) == isValidCertificate(data) /\ ~TypeErrorBeforeFetch(data)

OtherLogin(username) == IF ToLowerCase(username) = bob THEN alice ELSE bob

Noreply(prefix, username) == Str(prefix \o username.chars \o NOREPLY_DOMAIN)

LiveLogins(username) ==
    {username, ToUpperCase(username), OtherLogin(username), NULL}

LiveEmails(username) ==
    {NULL,
     Noreply(<<>>, username),
     Noreply(<<"1", "2", "3", "4", "5", "+">>, username),
     ToUpperCase(Noreply(<<"7", "+">>, username)),
     Noreply(<<"+">>, username),
     Noreply(<<"x", "1", "+">>, username),
     Noreply(<<"1", "2", "3", "4", "5", "+">>, OtherLogin(username)),
     Str(Noreply(<<>>, username).chars \o <<".", "x">>)}

\* author and committer dates of the live commit, around the stored commit
\* date and around the 60 second and 30 day tolerances
LiveAuthorDates(stored) ==
    {stored, NULL, Midnight(2015, 1, 1), NotADate,
     Shift(stored, 0, 59999), Shift(stored, 0, 60000),
     Shift(stored, 0, -59999), Shift(stored, 0, -60000)}

LiveCommitterDates(authorDate) ==
    IF authorDate = NULL THEN {NULL, Midnight(2019, 7, 1)}
    ELSE {NULL, authorDate, NotADate,
          Shift(authorDate, 30, 0), Shift(authorDate, 30, 1),
          Shift(authorDate, -30, 0), Shift(authorDate, -30, -1)}

FetchErrors ==
    {"Not found: https://api.github.com/repos/r/commits/s",
     "GitHub API rate limit exceeded. Resets at soon.",
     "GitHub API error: 500 Internal Server Error",
     "fetch failed"}

\* what fetchCommit can do for the commit a well-formed certificate names
LiveOutcomes(cert) ==
    IF ~WellFormed(cert) THEN {FetchFailed("fetch failed")}
    ELSE IF ~Truthy(cert.proof.firstCommit.sha) THEN {FetchFailed("fetch failed")}
    ELSE
    LET h == HonestDetail(cert)
        u == cert.identity.username
        identities == {[h EXCEPT !.authorLogin = a, !.committerLogin = c,
                                 !.authorEmail = e] :
                          a \in LiveLogins(u),
                          c \in {u, OtherLogin(u), NULL},
                          e \in LiveEmails(u)}
        ids == {[d EXCEPT !.authorId = i] :
                   d \in {x \in identities :
                             /\ x.authorLogin \in {u, OtherLogin(u)}
                             /\ x.authorEmail \in {NULL, Noreply(<<"1", "2", "3", "4", "5", "+">>, u)}},
                   i \in {Id(cert.identity.githubId.id + 1), NULL}}
        dates == UNION {{[h EXCEPT !.authorDate = a, !.committerDate = c] :
                            c \in LiveCommitterDates(a)} :
                        a \in LiveAuthorDates(cert.proof.firstCommit.date)}
        flags == {[h EXCEPT !.isRootCommit = r, !.verified = v,
                            !.verificationReason = why] :
                     r \in BOOLEAN, v \in BOOLEAN,
                     why \in {NULL, Str(<<"v", "a", "l", "i", "d">>),
                              Str(<<"u", "n", "s", "i", "g", "n", "e", "d">>)}}
    IN  {Fetched(d) : d \in identities \cup ids \cup dates \cup flags}
        \cup {FetchFailed(m) : m \in FetchErrors}

\* the commits authored by alice that GitHub's search may know: in a repo of
\* her own or of bob, committed before or after the cutoff
GitHubCommit(repo, sha, date) ==
    [date |-> date, repo |-> repo, sha |-> Str(<<sha>>), message |-> "Initial commit",
     committerDate |-> date]

GitHubCommits ==
    {GitHubCommit(aliceRepo, "1", Midnight(2019, 6, 1)),
     GitHubCommit(aliceRepo, "2", Midnight(2022, 3, 1)),
     GitHubCommit(bobRepo, "3", Midnight(2015, 1, 1)),
     GitHubCommit(bobRepo, "4", Midnight(2024, 6, 1)),
     GitHubCommit(aliceRepo, "5", Midnight(2025, 6, 1)),
     GitHubCommit(bobRepo, "6", Midnight(2026, 1, 1))}

QueryOutcomes == {"ok", "rate limit", "error"}

\* the instants the web page's clock can show: an entry stored at the first or
\* second one is exactly 5 minutes old, or 1 ms older, at a later one
WebClockOffsets == {0, 1, 300001, 300002}

WebClock == {PlusMs(ClockStart, ms) : ms \in WebClockOffsets}

\* what the three searches of one lookup do: all answer, all fail, or the
\* rate limit is hit at once
LookupQueryOutcomes == {[k \in 1..3 |-> o] : o \in QueryOutcomes}

\* the names typed into the web page: the account's login in two spellings
\* and a name GitHub does not know
Usernames == {alice, Alice, bob}

\* 64-hex-digit hashes: first four digits, digits 5..12 (zero, below and above
\* 1 000 000, around 2^31, 2^32 - 1) and the remaining 52 digits
HashPrefixes ==
    {<<"0", "0", "0", "0">>, <<"a", "b", "c", "d">>, <<"f", "f", "f", "f">>,
     <<"1", "a", "2", "b">>}

HashNumerics ==
    {<<"0", "0", "0", "0", "0", "0", "0", "0">>,
     <<"0", "0", "0", "0", "0", "0", "0", "9">>,
     <<"0", "0", "0", "1", "e", "2", "4", "0">>,
     <<"0", "0", "0", "f", "4", "2", "4", "0">>,
     <<"0", "0", "0", "f", "4", "2", "4", "1">>,
     <<"7", "f", "f", "f", "f", "f", "f", "f">>,
     <<"8", "0", "0", "0", "0", "0", "0", "0">>,
     <<"d", "e", "a", "d", "b", "e", "e", "f">>,
     <<"f", "f", "f", "f", "f", "f", "f", "f">>}

HashTails ==
    {[i \in 1..(HASH_HEX_LENGTH - 12) |-> "0"],
     [i \in 1..(HASH_HEX_LENGTH - 12) |-> "f"],
     [i \in 1..(HASH_HEX_LENGTH - 12) |-> HexDigits[(i % 16) + 1]]}

Hashes ==
    {Str(a \o b \o c) : a \in HashPrefixes, b \in HashNumerics, c \in HashTails}

-----------------------------------------------------------------------------
(* The state machine.                                                      *)

\* nothing was numbered, searched or looked up
InitOthers ==
    /\ hashArg = NULL
    /\ number = NULL
    /\ searchable = {}
    /\ found = NULL
    /\ cache = {}
    /\ served = NULL

InitCommon ==
    /\ now = ClockStart
    /\ issued = <<>>
    /\ resolved = NULL
    /\ presented = NULL
    /\ commitDetail = NULL
    /\ calls = <<>>
    /\ report = NULL
    /\ InitOthers

Init ==
    /\ user \in NarrowUsers
    /\ firstCommit \in NarrowCommits \cup {NULL}
    /\ InitCommon

InitWide ==
    /\ user \in WideUsers
    /\ firstCommit \in WideCommits \cup {NULL}
    /\ InitCommon

\* a certificate was issued from the Data Source's responses when the clock
\* showed ClockStart; a file holding it, as issued or edited, is at hand
InitVerify ==
    /\ \E from \in IssuedFrom : user = from[1] /\ firstCommit = from[2]
    /\ now = ClockStart
    /\ issued = <<createCertificate(user, firstCommit, ClockStart, ClockStart)>>
    /\ resolved = NULL
    /\ presented \in {Edit(issued[1], e) : e \in FileEdits}
    /\ commitDetail = NULL
    /\ calls = <<>>
    /\ report = NULL
    /\ InitOthers

\* GitHub knows some of alice's commits
InitSearch ==
    /\ user = User(alice, Id(1001), Midnight(2020, 1, 1))
    /\ firstCommit = NULL
    /\ now = ClockStart
    /\ issued = <<>>
    /\ resolved = NULL
    /\ presented = NULL
    /\ commitDetail = NULL
    /\ calls = <<>>
    /\ report = NULL
    /\ hashArg = NULL
    /\ number = NULL
    /\ searchable \in SUBSET GitHubCommits
    /\ found = NULL
    /\ cache = {}
    /\ served = NULL

\* the web page was just loaded: nothing is cached; GitHub knows alice's
\* account and none, one or two of her commits
InitWeb ==
    /\ user = User(alice, Id(1001), Midnight(2020, 1, 1))
    /\ firstCommit = NULL
    /\ now = ClockStart
    /\ issued = <<>>
    /\ resolved = NULL
    /\ presented = NULL
    /\ commitDetail = NULL
    /\ calls = <<>>
    /\ report = NULL
    /\ hashArg = NULL
    /\ number = NULL
    /\ searchable \in SUBSET {GitHubCommit(aliceRepo, "1", Midnight(2019, 6, 1)),
                               GitHubCommit(bobRepo, "3", Midnight(2015, 1, 1))}
    /\ found = NULL
    /\ cache = {}
    /\ served = NULL

\* a 64-hex-digit hash is at hand
InitNumber ==
    /\ user \in NarrowUsers
    /\ firstCommit = NULL
    /\ now = ClockStart
    /\ issued = <<>>
    /\ resolved = NULL
    /\ presented = NULL
    /\ commitDetail = NULL
    /\ calls = <<>>
    /\ report = NULL
    /\ hashArg \in Hashes
    /\ number = NULL
    /\ searchable = {}
    /\ found = NULL
    /\ cache = {}
    /\ served = NULL

\* the activation record of resolveProofDate(u, commit) called at instant clock
Resolution(u, commit, clock) ==
    [user |-> u, firstCommit |-> commit,
     effectiveDate |-> IF commit = NULL THEN NULL ELSE getEffectiveCommitDate(commit),
     result |-> resolveProofDate(u, commit, clock),
     at |-> clock]

\* time passes
Tick ==
    /\ \E t \in Clock : Lt(now, t) /\ now' = t
    /\ UNCHANGED <<user, firstCommit, issued, resolved, presented, commitDetail,
                   calls, report>>
    /\ UNCHANGED <<numberVars, searchVars, webVars>>

\* createCertificate(user, firstCommit) on the Data Source's
\* responses; the clock may move on while the hash is awaited
Issue ==
    /\ Len(issued) < MaxIssued
    /\ \E t \in Clock :
          /\ Le(now, t)
          /\ \A t2 \in Clock : ~(Lt(now, t2) /\ Lt(t2, t))
          /\ issued' = Append(issued, createCertificate(user, firstCommit, now, t))
          /\ now' = t
    /\ resolved' = Resolution(user, firstCommit, now)
    /\ UNCHANGED <<user, firstCommit, presented, commitDetail, calls, report>>
    /\ UNCHANGED <<numberVars, searchVars, webVars>>

\* a certificate file is handed to the verifier: an issued certificate, as
\* issued or with one field edited
Present ==
    /\ \E i \in DOMAIN issued, e \in Edits : presented' = Edit(issued[i], e)
    /\ commitDetail' = NULL
    /\ calls' = <<>>
    /\ report' = NULL
    /\ UNCHANGED <<now, user, firstCommit, issued, resolved>>
    /\ UNCHANGED <<numberVars, searchVars, webVars>>

\* verifyCertificate(filePath, hashFn) of the CLI on the parsed file: the shape
\* check, then verifyCertificateData(presented, hashFn); fetched is what
\* fetchCommit does when it is called
VerifyWith(fetched) ==
    /\ presented # NULL
    /\ report = NULL
    /\ IF ~isValidCertificate(presented)
       THEN /\ report' = Rejected
            /\ calls' = <<>>
            /\ UNCHANGED <<commitDetail, resolved>>
       ELSE IF TypeErrorBeforeFetch(presented)
       THEN /\ report' = verifyCertificateData(presented, fetched, now)
            /\ calls' = <<>>
            /\ UNCHANGED <<commitDetail, resolved>>
       ELSE /\ report' = verifyCertificateData(presented, fetched, now)
            /\ calls' = fetchCommitCalls(presented)
            /\ commitDetail' = IF Truthy(presented.proof.firstCommit.sha)
                               THEN fetched ELSE NULL
            /\ resolved' = Resolution(reconstructedUser(presented),
                                      reconstructedCommit(presented), now)
    /\ UNCHANGED <<now, user, firstCommit, issued, presented>>
    /\ UNCHANGED <<numberVars, searchVars, webVars>>

Verify ==
    /\ presented # NULL
    /\ \E fetched \in FetchOutcomes(presented) : VerifyWith(fetched)

\* the same handler on the wide space of Data Source responses
VerifyLive ==
    /\ presented # NULL
    /\ \E fetched \in LiveOutcomes(presented) : VerifyWith(fetched)

\* fetchFirstCommit(user.login): up to three searches, then the repo's
\* creation date
FetchFirstCommit ==
    /\ \E outcomes \in [1..3 -> QueryOutcomes], repoCreated \in {NULL, Midnight(2019, 1, 1)} :
          found' = [outcome |-> fetchFirstCommit(searchable, user.login, outcomes,
                                                 repoCreated),
                    queries |-> outcomes]
    /\ UNCHANGED <<searchable, cliVars, numberVars, webVars>>

\* time passes in the browser
WebTick ==
    /\ \E t \in WebClock : Lt(now, t) /\ now' = t
    /\ UNCHANGED <<user, firstCommit, issued, resolved, presented, commitDetail,
                   calls, report>>
    /\ UNCHANGED <<numberVars, searchVars, webVars>>

\* lookupUser(username, onStatus); the clock may move on while the Data
\* Source and the hash are awaited
Lookup ==
    /\ \E username \in Usernames, userOutcome \in {"ok", "rate limit"},
          outcomes \in LookupQueryOutcomes,
          repoCreated \in {NULL, Midnight(2019, 1, 1)}, t \in WebClock :
          /\ Le(now, t)
          /\ \A t2 \in WebClock : ~(Lt(now, t2) /\ Lt(t2, t))
          /\ \E r \in {lookupUser(cache, username, user, searchable, userOutcome,
                                   outcomes, repoCreated, now, t)} :
                 /\ served' = [username |-> username, at |-> now,
                               returned |-> r.returned, calls |-> r.calls,
                               status |-> r.status, before |-> cache]
                 /\ cache' = r.cache
                 /\ now' = IF r.calls = <<>> THEN now ELSE t
    /\ UNCHANGED <<user, firstCommit, issued, resolved, presented, commitDetail,
                   calls, report>>
    /\ UNCHANGED <<numberVars, searchVars>>

\* generateCertificateNumber(hash)
GenerateNumber ==
    /\ hashArg # NULL
    /\ number' = generateCertificateNumber(hashArg)
    /\ UNCHANGED <<hashArg, cliVars, searchVars, webVars>>

Next == Tick \/ Issue \/ Present \/ Verify

NextIssue == Tick \/ Issue

NextVerify == Tick \/ VerifyLive

Spec == Init /\ [][Next]_vars

SpecIssue == InitWide /\ [][NextIssue]_vars

SpecVerify == InitVerify /\ [][NextVerify]_vars

NextNumber == GenerateNumber

NextSearch == FetchFirstCommit

SpecSearch == InitSearch /\ [][NextSearch]_vars

NextWeb == WebTick \/ Lookup

SpecWeb == InitWeb /\ [][NextWeb]_vars

SpecNumber == InitNumber /\ [][NextNumber]_vars

-----------------------------------------------------------------------------
(* Notions the properties are stated with.                                 *)

Last(seq) == seq[Len(seq)]

CalendarFields(str) == <<str.y, str.mo, str.d, str.h, str.mi, str.s, str.ms>>

\* date string a names a strictly earlier instant than date string b, read off
\* the calendar fields of two parseable UTC strings
Earlier(a, b) ==
    LET x == CalendarFields(a)
        y == CalendarFields(b)
    IN  /\ IsDate(a) /\ IsDate(b)
        /\ \E k \in 1..7 : x[k] < y[k] /\ \A j \in 1..(k - 1) : x[j] = y[j]

\* the earlier of two parseable date strings, the second when they are equal
EarlierOf(a, b) == IF Earlier(a, b) THEN a ELSE b

\* committer date c lies more than 30 days after author date a
MoreThan30DaysAfter(c, a) ==
    LET tc == GetTime(c)
        ta == GetTime(a)
    IN  /\ IsDate(c) /\ IsDate(a)
        /\ \/ tc.day - ta.day > 30
           \/ tc.day - ta.day = 30 /\ tc.ms > ta.ms

AllParseable(call) ==
    /\ IsDate(call.user.createdAt)
    /\ IsDate(call.firstCommit.date)
    /\ call.firstCommit.committerDate # NULL => IsDate(call.firstCommit.committerDate)
    /\ call.firstCommit.repoCreatedAt # NULL => IsDate(call.firstCommit.repoCreatedAt)

IsIssued(cert) == \E i \in DOMAIN issued : issued[i] = cert

StoredFieldsHash(cert) ==
    sha256Hex(JSONStringify(cert.identity.username, cert.identity.githubId,
                            cert.proof.proofDate, cert.era, CERTIFICATE_SALT))

-----------------------------------------------------------------------------
(* C1..C10                                                                 *)

\* C1: every certificate createCertificate returns stores 'sha256:' followed by
\* the hash of its own username, githubId, proofDate and era, and the verifier
\* reports "Hash integrity" as passed on a certificate presented unmodified.
C1_HashRoundTrip ==
    /\ \A i \in DOMAIN issued :
          issued[i].verification.hash = Concat(SHA256_PREFIX, StoredFieldsHash(issued[i]))
    /\ (report # NULL /\ IsIssued(presented)) =>
          /\ report.results[1].check = "Hash integrity"
          /\ report.results[1].passed

C1_Witness ==
    /\ report # NULL
    /\ IsIssued(presented)
    /\ firstCommit = NULL
    /\ report.results[1].passed

\* C2: a certificate of the Builder with only its era switched fails "Hash
\* integrity", and the overall result is invalid.
C2_EraEditFailsHash ==
    (report # NULL /\ \E i \in DOMAIN issued : presented = Edit(issued[i], "era")) =>
        /\ report.results[1].check = "Hash integrity"
        /\ ~report.results[1].passed
        /\ ~report.valid

C2_Witness ==
    /\ report # NULL
    /\ \E i \in DOMAIN issued : presented = Edit(issued[i], "era")
    /\ ~report.results[1].passed

OtherFieldsEdited(cert) ==
    {Edit(cert, e) : e \in OtherEdits} \cup
    {Edit(Edit(Edit(Edit(cert, "salt"), "name"), "accountCreated"), "issuedAt")}

\* C3: the "Hash integrity" outcome reported for a certificate is the outcome
\* of every certificate that differs from it only in fields other than
\* username, githubId, proofDate, era and the stored hash.
C3_HashIgnoresOtherFields ==
    report # NULL =>
        \A other \in OtherFieldsEdited(presented) :
            hashIntegrityCheck(other).passed = report.results[1].passed

C3_Witness ==
    /\ report # NULL
    /\ \E i \in DOMAIN issued : presented = Edit(issued[i], "accountCreated")
    /\ report.results[1].passed
    /\ ~report.results[3].passed

\* C4: a certificate's era is LAST_GEN exactly when its proof date is strictly
\* before 2025-02-21T00:00:00Z and AI_NATIVE otherwise; one millisecond before
\* the cutoff is LAST_GEN, the cutoff instant is AI_NATIVE.
C4_ClassifyEra ==
    \A i \in DOMAIN issued :
        LET proofDate == issued[i].proof.proofDate
            era       == issued[i].era
        IN  /\ era = IF Earlier(proofDate, Midnight(2025, 2, 21))
                     THEN "LAST_GEN" ELSE "AI_NATIVE"
            /\ proofDate = JustBeforeCutoff => era = "LAST_GEN"
            /\ CalendarFields(proofDate) = <<2025, 2, 21, 0, 0, 0, 0>> => era = "AI_NATIVE"

C4_Witness ==
    /\ \E i \in DOMAIN issued :
          issued[i].proof.proofDate = JustBeforeCutoff /\ issued[i].era = "LAST_GEN"
    /\ \E i \in DOMAIN issued :
          /\ CalendarFields(issued[i].proof.proofDate) = <<2025, 2, 21, 0, 0, 0, 0>>
          /\ issued[i].era = "AI_NATIVE"

\* C5: two certificates issued from the same Data Source responses are equal
\* in every field but issuedAt.
C5_IssuanceDeterministic ==
    \A i, j \in DOMAIN issued :
        [issued[i] EXCEPT !.issuedAt = NULL] = [issued[j] EXCEPT !.issuedAt = NULL]

\* C6: with a commit whose repoCreatedAt is known (all dates parseable) the
\* resolver returns repoCreatedAt when the effective commit date is strictly
\* earlier than it, otherwise the earlier of the effective commit date and the
\* account creation date, the account creation date when they are equal.
C6_ResolveWithRepoDate ==
    (/\ resolved # NULL
     /\ resolved.firstCommit # NULL
     /\ resolved.firstCommit.repoCreatedAt # NULL
     /\ AllParseable(resolved)) =>
        /\ resolved.result =
              IF Earlier(resolved.effectiveDate, resolved.firstCommit.repoCreatedAt)
              THEN resolved.firstCommit.repoCreatedAt
              ELSE EarlierOf(resolved.effectiveDate, resolved.user.createdAt)
        /\ (/\ resolved.user.createdAt = Midnight(2020, 1, 1)
            /\ resolved.firstCommit.date = Midnight(2019, 6, 1)
            /\ resolved.firstCommit.committerDate = NULL
            /\ resolved.firstCommit.repoCreatedAt = Midnight(2019, 1, 1)) =>
               resolved.result = Midnight(2019, 6, 1)

C6_Witness ==
    /\ resolved # NULL
    /\ resolved.firstCommit # NULL
    /\ resolved.user.createdAt = Midnight(2020, 1, 1)
    /\ resolved.firstCommit.date = Midnight(2019, 6, 1)
    /\ resolved.firstCommit.committerDate = NULL
    /\ resolved.firstCommit.repoCreatedAt = Midnight(2019, 1, 1)
    /\ resolved.result = Midnight(2019, 6, 1)

\* C7: the effective commit date is the committer date exactly when a committer
\* date exists and lies more than 30 days after the author date; otherwise it
\* is the author date (no committer date, exactly 30 days, author later).
C7_EffectiveCommitDate ==
    (resolved # NULL /\ resolved.firstCommit # NULL) =>
        LET a == resolved.firstCommit.date
            c == resolved.firstCommit.committerDate
        IN  /\ resolved.effectiveDate =
                  IF c # NULL /\ MoreThan30DaysAfter(c, a) THEN c ELSE a
            /\ (a = Midnight(2015, 1, 1) /\ c = Midnight(2024, 6, 1)) =>
                  resolved.effectiveDate = Midnight(2024, 6, 1)
            /\ (a = Midnight(2019, 6, 1) /\ c = Midnight(2019, 7, 1)) =>
                  resolved.effectiveDate = a
            /\ (a = Midnight(2019, 6, 1) /\ c = JustOver30Days) =>
                  resolved.effectiveDate = c
            /\ (a = Midnight(2019, 7, 1) /\ c = Midnight(2019, 1, 1)) =>
                  resolved.effectiveDate = a

C7_Witness ==
    /\ resolved # NULL
    /\ resolved.firstCommit # NULL
    /\ resolved.firstCommit.date = Midnight(2015, 1, 1)
    /\ resolved.firstCommit.committerDate = Midnight(2024, 6, 1)
    /\ resolved.effectiveDate = Midnight(2024, 6, 1)

\* C8: with a commit whose repoCreatedAt is unknown (all dates parseable) the
\* resolver returns the earlier of the effective commit date and the account
\* creation date.
C8_MissingRepoDateNoConstraint ==
    (/\ resolved # NULL
     /\ resolved.firstCommit # NULL
     /\ resolved.firstCommit.repoCreatedAt = NULL
     /\ AllParseable(resolved)) =>
        resolved.result = EarlierOf(resolved.effectiveDate, resolved.user.createdAt)

C10_ProofDateIsAnInput ==
    (resolved # NULL /\ resolved.firstCommit # NULL) =>
        resolved.result \in
            ({resolved.user.createdAt, resolved.firstCommit.date,
              resolved.firstCommit.committerDate, resolved.firstCommit.repoCreatedAt}
             \ {NULL})

C10_Witness ==
    /\ resolved # NULL
    /\ resolved.firstCommit # NULL
    /\ resolved.result = resolved.firstCommit.committerDate
    /\ resolved.result # resolved.user.createdAt
    /\ resolved.result # resolved.firstCommit.date

-----------------------------------------------------------------------------
(* Notions the verifier's properties are stated with.                      *)

\* verifyCertificateData returned a result
Verified == report # NULL /\ "results" \in DOMAIN report

\* ... and the commit it fetched was delivered
LiveChecked == Verified /\ commitDetail # NULL /\ commitDetail.ok

\* ... and the fetch of the commit failed
FetchThrew == Verified /\ commitDetail # NULL /\ ~commitDetail.ok

CheckNames == [i \in DOMAIN report.results |-> report.results[i].check]

HasCheck(name) == \E i \in DOMAIN report.results : report.results[i].check = name

CheckNamed(name) ==
    report.results[CHOOSE i \in DOMAIN report.results : report.results[i].check = name]

FailingChecks ==
    {"Hash integrity", "Era classification", "Proof date", "Identity", "GitHub ID",
     "Commit date", "Date consistency", "Commit verification"}

InformationalChecks == {"Repo ownership", "Root commit", "GPG signature"}

-----------------------------------------------------------------------------
(* C11..C20                                                                *)

\* C11: valid is true exactly when every check of the result passed; the checks
\* "Repo ownership", "Root commit" and "GPG signature" are always passed, so
\* valid is false exactly when one of the other eight checks is failed.
C11_ValidIsConjunction ==
    Verified =>
        LET rs == report.results
        IN  /\ report.valid = (\A i \in DOMAIN rs : rs[i].passed)
            /\ \A i \in DOMAIN rs : rs[i].check \in InformationalChecks => rs[i].passed
            /\ \A i \in DOMAIN rs : rs[i].check \in InformationalChecks \cup FailingChecks
            /\ (~report.valid) =
                   (\E i \in DOMAIN rs : rs[i].check \in FailingChecks /\ ~rs[i].passed)

C11_Witness ==
    /\ LiveChecked
    /\ report.valid
    /\ HasCheck("Root commit")
    /\ HasCheck("GPG signature")
    /\ CheckNamed("Repo ownership").detail.msg = "Commit is in a third-party repo"

\* C12: for a certificate naming a commit that the Data Source delivers, the
\* checks are Hash integrity, Era classification, Proof date, Identity, Repo
\* ownership, GitHub ID (iff the live author id is not null), Commit date, Date
\* consistency (iff the live author and committer dates both exist), Root
\* commit (iff the live commit is a root commit), GPG signature (iff verified),
\* in this order, whichever of them failed.
C12_CheckOrder ==
    LiveChecked =>
        LET live == commitDetail.detail
        IN  CheckNames =
                <<"Hash integrity", "Era classification", "Proof date", "Identity",
                  "Repo ownership">>
                \o (IF live.authorId # NULL THEN <<"GitHub ID">> ELSE <<>>)
                \o <<"Commit date">>
                \o (IF live.authorDate # NULL /\ live.committerDate # NULL
                    THEN <<"Date consistency">> ELSE <<>>)
                \o (IF live.isRootCommit THEN <<"Root commit">> ELSE <<>>)
                \o (IF live.verified THEN <<"GPG signature">> ELSE <<>>)

C12_Witness ==
    /\ LiveChecked
    /\ Len(report.results) = 10
    /\ ~report.results[1].passed
    /\ report.results[6].check = "GitHub ID"
    /\ report.results[10].check = "GPG signature"

\* C13: with an empty sha the verifier returns exactly Hash integrity, Era
\* classification and Proof date and calls the Data Source not at all; with a
\* non-empty sha it makes exactly one call, fetchCommit of the stored repo and
\* sha.
C13_DataSourceCalls ==
    Verified =>
        IF presented.proof.firstCommit.sha = EmptyStr
        THEN /\ CheckNames = <<"Hash integrity", "Era classification", "Proof date">>
             /\ calls = <<>>
             /\ commitDetail = NULL
        ELSE /\ Len(calls) = 1
             /\ calls[1] = [fn |-> "fetchCommit",
                            repo |-> presented.proof.firstCommit.repo,
                            sha |-> presented.proof.firstCommit.sha]

C13_Witness ==
    /\ Verified
    /\ presented.proof.firstCommit.sha = EmptyStr
    /\ presented.proof.firstCommit.repo # EmptyStr
    /\ Len(report.results) = 3
    /\ calls = <<>>

\* C14: when fetchCommit throws, the result is Hash integrity, Era
\* classification and Proof date with the outcomes they have when the commit is
\* delivered, then one failed "Commit verification" check carrying the error
\* message, and nothing else; valid is false.
C14_FetchFailure ==
    FetchThrew =>
        LET delivered == verifyCertificateData(presented,
                             Fetched(HonestDetail(presented)), resolved.at)
        IN  /\ CheckNames = <<"Hash integrity", "Era classification", "Proof date",
                              "Commit verification">>
            /\ \A i \in 1..3 : report.results[i] = delivered.results[i]
            /\ ~report.results[4].passed
            /\ report.results[4].detail.with = <<commitDetail.message>>
            /\ ~report.valid

C14_Witness ==
    /\ FetchThrew
    /\ commitDetail.message = "GitHub API rate limit exceeded. Resets at soon."
    /\ \A i \in 1..3 : report.results[i].passed
    /\ Len(report.results) = 4
    /\ ~report.valid

\* C15: for every parsed value that passes isValidCertificate the verifier
\* returns a result holding at least Hash integrity, Era classification and
\* Proof date; it never throws.
C15_NeverThrows ==
    (report # NULL /\ isValidCertificate(presented)) =>
        /\ Verified
        /\ Len(report.results) >= 3
        /\ SubSeq(CheckNames, 1, 3) =
               <<"Hash integrity", "Era classification", "Proof date">>

\* two strings are equal when case is ignored
SameIgnoringCase(a, b) ==
    /\ a # NULL
    /\ Len(a.chars) = Len(b.chars)
    /\ \A i \in DOMAIN a.chars : ToLowerChar(a.chars[i]) = ToLowerChar(b.chars[i])

\* email is '<username>@users.noreply.github.com', case ignored, or that
\* preceded by one or more digits and '+'
IsNoreplyOf(email, username) ==
    /\ email # NULL
    /\ \E k \in 0..Len(email.chars) :
          /\ SameIgnoringCase(Str(SubSeq(email.chars, k + 1, Len(email.chars))),
                              Str(username.chars \o NOREPLY_DOMAIN))
          /\ k > 0 =>
                /\ k >= 2
                /\ email.chars[k] = "+"
                /\ \A i \in 1..(k - 1) :
                      email.chars[i] \in {"0", "1", "2", "3", "4", "5", "6", "7", "8", "9"}

\* C16: the Identity check passes exactly when the live author login or the
\* live committer login equals the certificate's username ignoring case, or the
\* live author email is the username's noreply address, optionally prefixed by
\* digits and '+'; its detail lists exactly the methods that matched. Username
\* alice with author email 12345+alice@users.noreply.github.com passes via
\* 'noreply email' alone when both logins differ.
C16_Identity ==
    LiveChecked =>
        LET live == commitDetail.detail
            name == presented.identity.username
            byAuthor    == SameIgnoringCase(live.authorLogin, name)
            byCommitter == SameIgnoringCase(live.committerLogin, name)
            byEmail     == IsNoreplyOf(live.authorEmail, name)
            identity    == report.results[4]
        IN  /\ identity.check = "Identity"
            /\ identity.passed = (byAuthor \/ byCommitter \/ byEmail)
            /\ identity.passed =>
                  identity.detail.with =
                      <<[methods |->
                          (IF byAuthor THEN <<"author login">> ELSE <<>>)
                          \o (IF byCommitter THEN <<"committer login">> ELSE <<>>)
                          \o (IF byEmail THEN <<"noreply email">> ELSE <<>>)]>>
            /\ (/\ name = alice
                /\ live.authorEmail = Noreply(<<"1", "2", "3", "4", "5", "+">>, alice)
                /\ ~byAuthor /\ ~byCommitter) =>
                  /\ identity.passed
                  /\ identity.detail.with = <<[methods |-> <<"noreply email">>]>>

C16_Witness ==
    /\ LiveChecked
    /\ presented.identity.username = alice
    /\ commitDetail.detail.authorLogin = bob
    /\ commitDetail.detail.committerLogin = NULL
    /\ commitDetail.detail.authorEmail = Noreply(<<"1", "2", "3", "4", "5", "+">>, alice)
    /\ report.results[4].passed
    /\ report.results[4].detail.with = <<[methods |-> <<"noreply email">>]>>

\* C17: the GitHub ID check is produced exactly when the live commit exposes an
\* author id, and passes exactly when that id is the certificate's githubId; a
\* live author id that differs makes the result invalid, also when the
\* Identity check passed.
C17_GitHubId ==
    LiveChecked =>
        LET live == commitDetail.detail
        IN  /\ HasCheck("GitHub ID") = (live.authorId # NULL)
            /\ HasCheck("GitHub ID") =>
                  CheckNamed("GitHub ID").passed =
                      (live.authorId.id = presented.identity.githubId.id)
            /\ (live.authorId # NULL /\ live.authorId.id # presented.identity.githubId.id)
                  => ~report.valid

C17_Witness ==
    /\ LiveChecked
    /\ commitDetail.detail.authorId # NULL
    /\ commitDetail.detail.authorId # presented.identity.githubId
    /\ report.results[4].passed
    /\ report.results[4].detail.with = <<[methods |-> <<"committer login">>]>>
    /\ ~CheckNamed("GitHub ID").passed
    /\ ~report.valid

\* milliseconds between the instants two parseable date strings name, two
\* days' worth when they are a day or more apart
MsBetween(a, b) ==
    LET ta == GetTime(a)
        tb == GetTime(b)
    IN  CASE ta.day = tb.day -> IF ta.ms >= tb.ms THEN ta.ms - tb.ms ELSE tb.ms - ta.ms
          [] ta.day = tb.day + 1 -> ta.ms + (MS_PER_DAY - tb.ms)
          [] tb.day = ta.day + 1 -> tb.ms + (MS_PER_DAY - ta.ms)
          [] OTHER -> 2 * MS_PER_DAY

\* both date strings exist, parse, and name instants less than 60 s apart
LessThan60sApart(a, b) ==
    /\ a # NULL /\ b # NULL
    /\ IsDate(a) /\ IsDate(b)
    /\ MsBetween(a, b) < 60000

\* both date strings parse and name instants at most 30 days apart
AtMost30DaysApart(a, b) ==
    LET ta == GetTime(a)
        tb == GetTime(b)
        d  == ta.day - tb.day
        m  == ta.ms - tb.ms
    IN  /\ IsDate(a) /\ IsDate(b)
        /\ \/ -30 < d /\ d < 30
           \/ d = 30 /\ m <= 0
           \/ d = -30 /\ m >= 0

\* C18: the Commit date check passes exactly when the live author date and the
\* stored commit date are less than 60 seconds apart: 59 999 ms passes,
\* 60 000 ms fails, and a live commit without author date fails.
C18_CommitDate ==
    LiveChecked =>
        LET live   == commitDetail.detail.authorDate
            stored == presented.proof.firstCommit.date
        IN  /\ HasCheck("Commit date")
            /\ CheckNamed("Commit date").passed = LessThan60sApart(live, stored)
            /\ live = NULL => ~CheckNamed("Commit date").passed
            /\ IsDate(stored) =>
                  /\ live \in {Shift(stored, 0, 59999), Shift(stored, 0, -59999)}
                        => CheckNamed("Commit date").passed
                  /\ live \in {Shift(stored, 0, 60000), Shift(stored, 0, -60000)}
                        => ~CheckNamed("Commit date").passed

C18_Witness ==
    /\ LiveChecked
    /\ IsDate(presented.proof.firstCommit.date)
    /\ commitDetail.detail.authorDate = Shift(presented.proof.firstCommit.date, 0, 60000)
    /\ ~CheckNamed("Commit date").passed

\* C19: the Date consistency check is produced exactly when the live commit has
\* an author date and a committer date, and passes exactly when the two are at
\* most 30 days apart, whichever is the later: exactly 30 days passes.
C19_DateConsistency ==
    LiveChecked =>
        LET a == commitDetail.detail.authorDate
            c == commitDetail.detail.committerDate
        IN  /\ HasCheck("Date consistency") = (a # NULL /\ c # NULL)
            /\ HasCheck("Date consistency") =>
                  /\ CheckNamed("Date consistency").passed = AtMost30DaysApart(c, a)
                  /\ (IsDate(a) /\ c \in {Shift(a, 30, 0), Shift(a, -30, 0)})
                        => CheckNamed("Date consistency").passed
                  /\ (IsDate(a) /\ c \in {Shift(a, 30, 1), Shift(a, -30, -1)})
                        => ~CheckNamed("Date consistency").passed

C19_Witness ==
    /\ LiveChecked
    /\ commitDetail.detail.authorDate # NULL
    /\ IsDate(commitDetail.detail.authorDate)
    /\ commitDetail.detail.committerDate = Shift(commitDetail.detail.authorDate, -30, 0)
    /\ CheckNamed("Date consistency").passed

\* C20: the Proof date check passes exactly when the resolver, run on the stored
\* accountCreated and on the stored firstCommit (no commit when its sha is
\* empty), returns a date less than 60 seconds from the stored proofDate.
C20_ProofDate ==
    Verified =>
        /\ resolved # NULL
        /\ resolved.user.createdAt = presented.proof.accountCreated
        /\ resolved.firstCommit = IF presented.proof.firstCommit.sha # EmptyStr
                                  THEN presented.proof.firstCommit ELSE NULL
        /\ report.results[3].check = "Proof date"
        /\ report.results[3].passed =
               LessThan60sApart(resolved.result, presented.proof.proofDate)

C20_Witness ==
    /\ Verified
    /\ presented = Edit(issued[1], "proofDate+59999")
    /\ presented.proof.firstCommit.sha # EmptyStr
    /\ report.results[3].passed
    /\ ~report.results[1].passed

-----------------------------------------------------------------------------
(* C21..C30                                                                *)

\* C21: the Era classification check passes exactly when the stored era is the
\* era of the stored proof date (LAST_GEN strictly before the cutoff, AI_NATIVE
\* from the cutoff on); a certificate whose era is not that of its stored proof
\* date is invalid, also when its hash was recomputed to fit.
C21_EraCheck ==
    Verified =>
        LET proofDate == presented.proof.proofDate
            eraOfDate == IF Earlier(proofDate, Midnight(2025, 2, 21))
                         THEN "LAST_GEN" ELSE "AI_NATIVE"
        IN  /\ report.results[2].check = "Era classification"
            /\ report.results[2].passed = (presented.era = eraOfDate)
            /\ eraOfDate = classifyEra(proofDate)
            /\ presented.era # eraOfDate => ~report.valid

C21_Witness ==
    /\ Verified
    /\ presented = Edit(issued[1], "eraRehashed")
    /\ report.results[1].passed
    /\ ~report.results[2].passed
    /\ ~report.valid

\* value of a sequence of four hex digits
Hex4(cs) ==
    ((HexValue(cs[1]) * 16 + HexValue(cs[2])) * 16 + HexValue(cs[3])) * 16
    + HexValue(cs[4])

\* (hi * 2^16 + lo) modulo 1 000 000 for two 16-bit values, computed without
\* leaving the 32-bit range
Mod1e6(hi, lo) == (((((hi * 256) % 1000000) * 256) % 1000000) + lo) % 1000000

\* n < 1 000 000 written with exactly six decimal digits
SixDigits(n) ==
    [k \in 1..6 |->
        LET p == CASE k = 1 -> 100000 [] k = 2 -> 10000 [] k = 3 -> 1000
                   [] k = 4 -> 100 [] k = 5 -> 10 [] OTHER -> 1
        IN  DecimalDigits[((n \div p) % 10) + 1]]

\* C22: the certificate number of a 64-hex-digit hash h is 'LGC-', the first
\* four hex digits of h in upper case, '-', and the unsigned value of hex digits
\* 5..12 modulo 1 000 000 as exactly six decimal digits; it is the same for
\* every hash with the same first twelve digits.
C22_CertificateNumber ==
    number # NULL =>
        LET h == hashArg.chars
            n == Mod1e6(Hex4(SubSeq(h, 5, 8)), Hex4(SubSeq(h, 9, 12)))
        IN  /\ Len(h) = 64
            /\ number.chars = <<"L", "G", "C", "-">>
                              \o [k \in 1..4 |-> ToUpperChar(h[k])]
                              \o <<"-">> \o SixDigits(n)
            /\ \A other \in Hashes :
                  SubSeq(other.chars, 1, 12) = SubSeq(h, 1, 12) =>
                      generateCertificateNumber(other) = number
            /\ SubSeq(h, 1, 12) = <<"a", "b", "c", "d", "f", "f", "f", "f", "f", "f", "f", "f">>
                  => number = Str(<<"L", "G", "C", "-", "A", "B", "C", "D", "-",
                                    "9", "6", "7", "2", "9", "5">>)

C22_Witness ==
    /\ number # NULL
    /\ SubSeq(hashArg.chars, 1, 12) = <<"1", "a", "2", "b", "0", "0", "0", "f", "4", "2", "4", "1">>
    /\ number = Str(<<"L", "G", "C", "-", "1", "A", "2", "B", "-",
                      "0", "0", "0", "0", "0", "1">>)

\* commit c was committed strictly before commit d
CommittedBefore(c, d) == Earlier(c.committerDate, d.committerDate)

\* the commit of a non-empty set that was committed first
EarliestOf(commits) ==
    CHOOSE c \in commits : \A d \in commits : d # c => CommittedBefore(c, d)

\* C23: when every search is answered, fetchFirstCommit returns the earliest of
\* the searchable commits committed before the cutoff, taken from the user's
\* own repositories when there is one and from all repositories otherwise; it
\* returns null when no commit is searchable.
C23_EarliestCommit ==
    (found # NULL /\ \A k \in 1..3 : found.queries[k] = "ok") =>
        LET eligible == {c \in searchable :
                            Earlier(c.committerDate, Midnight(2025, 2, 21))}
            owned    == {c \in eligible : SplitFirst(c.repo) = user.login}
            expected == IF owned # {} THEN EarliestOf(owned) ELSE EarliestOf(eligible)
        IN  /\ searchable = {} => found.outcome = NULL
            /\ eligible # {} =>
                  /\ found.outcome # NULL
                  /\ found.outcome.sha = expected.sha
                  /\ found.outcome.repo = expected.repo
                  /\ found.outcome.date = expected.date

-----------------------------------------------------------------------------
(* Notions the web cache's properties are stated with.                     *)

\* the latest lookupUser call returned a certificate
ServedCertificate == served # NULL /\ ~IsThrown(served.returned)

\* ... and took it from the cache
ServedFromCache ==
    ServedCertificate /\ served.status = <<"Using cached result...">>

\* the latest lookupUser call threw
LookupFailed == served # NULL /\ IsThrown(served.returned)

\* the entries the cache held for the looked-up name before the latest lookup
EntriesBefore == {e \in served.before : e.key = ToLowerCase(served.username)}

\* milliseconds between the storing of entry e and the latest lookup
AgeMs(e) ==
    (served.at.day - e.timestamp.day) * MS_PER_DAY + (served.at.ms - e.timestamp.ms)

\* certificate cert without its issuedAt
IgnoringIssuedAt(cert) == [cert EXCEPT !.issuedAt = NULL]

\* the certificate an uncached lookup builds at instant clock from the Data
\* Source responses certificate cert was built from
BuiltAt(cert, clock) ==
    createCertificate(reconstructedUser(cert), reconstructedCommit(cert), clock, clock)

\* C24: whenever lookupUser answers from the cache, the certificate it returns
\* equals, ignoring issuedAt, the certificate an uncached lookup would build at
\* that moment from the same Data Source responses.
C24_CacheIndistinguishable ==
    ServedFromCache =>
        IgnoringIssuedAt(served.returned)
            = IgnoringIssuedAt(BuiltAt(served.returned, served.at))

\* C30: a certificate is served from the cache only if the cache held an entry
\* for the lower-cased username stored at most 300000 ms earlier, and then no
\* Data Source call is made; an older entry is gone after the lookup, and a
\* certificate not taken from the cache is freshly fetched and stored under the
\* lower-cased username; a lookup that throws stores no entry.
C30_CacheDiscipline ==
    served # NULL =>
        /\ ServedFromCache =>
              /\ \E e \in EntriesBefore :
                    e.certificate = served.returned /\ AgeMs(e) <= 300000
              /\ served.calls = <<>>
              /\ cache = served.before
        /\ \A e \in EntriesBefore : AgeMs(e) > 300000 => e \notin cache
        /\ (ServedCertificate /\ ~ServedFromCache) =>
              /\ served.calls = <<"fetchUser", "fetchFirstCommit">>
              /\ \E e \in cache :
                    /\ e.key = ToLowerCase(served.username)
                    /\ e.certificate = served.returned
                    /\ e.timestamp = GetTime(served.returned.issuedAt)
                    /\ Le(served.at, e.timestamp)
              /\ served.returned.identity.username = user.login
        /\ LookupFailed => cache \subseteq served.before

\* an entry 300001 ms old was dropped and a fresh certificate stored in its
\* place
C30_Witness ==
    /\ ServedCertificate /\ ~ServedFromCache
    /\ \E e \in EntriesBefore : AgeMs(e) = 300001 /\ e \notin cache

\* C25: a certificate presented as it was issued passes "Hash integrity", "Era
\* classification" and "Proof date" whenever it is verified, however much time
\* has passed since it was issued, with commit evidence or with the no-commit
\* placeholder.
C25_UnmodifiedPassesLocalChecks ==
    (Verified /\ IsIssued(presented)) =>
        \A name \in {"Hash integrity", "Era classification", "Proof date"} :
            HasCheck(name) /\ CheckNamed(name).passed

\* the resolver takes the committer date of a commit with these two dates as
\* its effective date
Substituted(authorDate, committerDate) ==
    /\ authorDate # NULL /\ committerDate # NULL
    /\ MoreThan30DaysAfter(committerDate, authorDate)

\* C26: when the live commit's committer date is more than 30 days after its
\* author date, the resolver substitutes the committer date and the verifier's
\* "Date consistency" check is failed, so the certificate is not reported
\* valid; in particular a certificate resting on the substitution is never
\* valid when the live dates equal the stored ones.
C26_SubstitutionNeverValid ==
    (LiveChecked
        /\ Substituted(commitDetail.detail.authorDate, commitDetail.detail.committerDate)) =>
        /\ getEffectiveCommitDate([date |-> commitDetail.detail.authorDate,
                                   committerDate |-> commitDetail.detail.committerDate])
              = commitDetail.detail.committerDate
        /\ HasCheck("Date consistency")
        /\ ~CheckNamed("Date consistency").passed
        /\ ~report.valid

\* an unmodified certificate resting on the substitution was verified against
\* the live commit carrying the stored dates
C26_Witness ==
    /\ LiveChecked
    /\ IsIssued(presented)
    /\ Substituted(presented.proof.firstCommit.date,
                   presented.proof.firstCommit.committerDate)
    /\ presented.proof.proofDate = presented.proof.firstCommit.committerDate
    /\ commitDetail.detail.authorDate = presented.proof.firstCommit.date
    /\ commitDetail.detail.committerDate = presented.proof.firstCommit.committerDate
    /\ ~report.valid

\* C27: with a commit (all dates parseable) the proof date the resolver returns
\* is never later than the account creation date, so a certificate issued with
\* a commit for an account created before the cutoff is LAST_GEN.
C27_NeverLaterThanAccount ==
    (/\ resolved # NULL
     /\ resolved.firstCommit # NULL
     /\ AllParseable(resolved)) =>
        /\ ~Earlier(resolved.user.createdAt, resolved.result)
        /\ (issued # <<>> /\ Earlier(resolved.user.createdAt, CUTOFF_DATE)) =>
              Last(issued).era = "LAST_GEN"

\* C28: a certificate issued when no commit was found stores the account
\* creation date as proof.firstCommit.date with empty repo and sha and the
\* placeholder message, and its proofDate is the account creation date, its era
\* the era of that date.
C28_NoCommitUsesAccountDate ==
    (issued # <<>> /\ resolved # NULL /\ resolved.firstCommit = NULL) =>
        LET cert == Last(issued)
        IN  /\ cert.proof.firstCommit.date = resolved.user.createdAt
            /\ cert.proof.firstCommit.repo = EmptyStr
            /\ cert.proof.firstCommit.sha = EmptyStr
            /\ cert.proof.firstCommit.message = NO_COMMIT_MESSAGE
            /\ cert.proof.accountCreated = resolved.user.createdAt
            /\ cert.proof.proofDate = resolved.user.createdAt
            /\ cert.era = IF Earlier(resolved.user.createdAt, CUTOFF_DATE)
                          THEN "LAST_GEN" ELSE "AI_NATIVE"

\* C29: unparseable date strings raise no error, every comparison on them is
\* false: with an unparseable effective commit date the resolver returns the
\* account creation date, an unparseable committer date leaves the author date
\* as effective date, and an unparseable proof date is classified AI_NATIVE.
C29_UnparseableDates ==
    /\ (resolved # NULL /\ resolved.firstCommit # NULL) =>
          /\ ~IsDate(resolved.effectiveDate) => resolved.result = resolved.user.createdAt
          /\ (resolved.firstCommit.committerDate # NULL
                /\ ~IsDate(resolved.firstCommit.committerDate)) =>
                resolved.effectiveDate = resolved.firstCommit.date
    /\ \A i \in DOMAIN issued :
          ~IsDate(issued[i].proof.proofDate) => issued[i].era = "AI_NATIVE"

\* a certificate was issued from a commit whose author and committer dates do
\* not parse for an account whose creation date parses
C29_Witness ==
    /\ resolved # NULL /\ resolved.firstCommit # NULL /\ issued # <<>>
    /\ ~IsDate(resolved.firstCommit.date)
    /\ resolved.firstCommit.committerDate # NULL
    /\ ~IsDate(resolved.firstCommit.committerDate)
    /\ IsDate(resolved.user.createdAt)
    /\ resolved.result = resolved.user.createdAt
    /\ Last(issued).proof.proofDate = resolved.user.createdAt

=============================================================================
